---- MODULE Spec2Model ----
(***************************************************************************)
(* Model of jv (danieledapo/jv): the View widget (src/widgets/view.rs),    *)
(* the AsciiLine it displays (src/widgets/ascii_line.rs), the JSON         *)
(* tokenizer (src/json/parser.rs) and the path index (src/json/index.rs).  *)
(*                                                                         *)
(* Text is a sequence of one-character strings.  Rust indices are 0-based: *)
(* the character at Rust index i of a text l is l[i + 1].                  *)
(***************************************************************************)
EXTENDS Integers, Sequences, FiniteSets, TLC

VARIABLES
    view,             \* the View struct (view.rs:34-50), lines included
    overflow_checks,  \* build profile: TRUE = arithmetic overflow panics (debug)
    panicked,         \* the process has aborted with a panic
    last_op,          \* the navigation call that produced this state
    json,             \* the serde_json::Value being loaded (main.rs:145)
    lines,            \* the Result of parse_json(json)
    ix,               \* the locals of index() while it walks the tokens
    ascii_text,       \* a text handed to AsciiLine::new
    ascii_line,       \* the Result of AsciiLine::new(ascii_text), indented since
    rendered,         \* the last call of render on a line and what it returned
    ui,               \* the Ui but for its view and index: focus, status line, and
                      \* how the handler of the last key returned
    drawn,            \* the error the Ui drew on the message row after the last key
    parsed            \* a command text and what parse_goto returned for it

vars == <<view, overflow_checks, panicked, last_op, json, lines, ix, ascii_text, ascii_line, rendered,
          ui, drawn, parsed>>
json_vars == <<json, lines, ix>>
text_vars == <<ascii_text, ascii_line, rendered>>
ui_vars == <<ui, drawn, parsed>>

----------------------------------------------------------------------------
(* Bounds of the model *)

MaxHeight == 4      \* viewport heights 1..MaxHeight
MaxGotoRow == 5     \* goto rows 0..MaxGotoRow
MaxGotoCol == 8     \* goto columns 0..MaxGotoCol
MaxNodes == 4       \* JSON documents of at most MaxNodes values
MaxTextLen == 3     \* texts of at most MaxTextLen characters
MaxFirstCol == 9    \* indent(first_col) for first_col in 0..MaxFirstCol
MaxRenderLen == 3   \* rendered texts of at most MaxRenderLen characters
MaxStartCol == 5    \* render(start_col, _) for start_col in 0..MaxStartCol
MaxWidth == 3       \* render(_, width) for width in 0..MaxWidth
MaxGotoLen == 4     \* parse_goto on texts of at most MaxGotoLen characters
MaxEditLen == 4      \* edited lines of up to MaxEditLen characters
MaxCmdLen == 2      \* at most MaxCmdLen characters typed after ':' or '#'
MaxQueryLen == 3    \* queries of at most MaxQueryLen characters after '#'
MaxLineLen == 2     \* edited status lines of at most MaxLineLen characters after the prefix

----------------------------------------------------------------------------
(* Rust integer helpers *)

Min(a, b) == IF a <= b THEN a ELSE b

\* usize::saturating_sub
saturating_sub(a, b) == IF a >= b THEN a - b ELSE 0

\* Stand-in for usize::MAX: the largest value the checker's integers hold.
\* Only its being larger than every row of the model matters.
usize_MAX == 2^30 + (2^30 - 1)

\* usize subtraction with overflow checks off: wraps around
wrapping_sub(a, b) == IF a >= b THEN a - b ELSE usize_MAX - (b - a) + 1

\* `x as u16`
as_u16(x) == x % 65536

\* n.to_string() for a usize, as text
Digit(d) == <<"0", "1", "2", "3", "4", "5", "6", "7", "8", "9">>[d + 1]
RECURSIVE to_string(_)
to_string(n) == IF n < 10 THEN <<Digit(n)>>
                ELSE to_string(n \div 10) \o <<Digit(n % 10)>>

----------------------------------------------------------------------------
(* AsciiLine: src/widgets/ascii_line.rs *)

TAB == "\t"
TAB_STOP == 8

\* The loop of AsciiLine::indent from Rust index i on, at screen column col;
\* acc is the char_widths map built so far (only tabs get an entry).
RECURSIVE indent_loop(_, _, _, _)
indent_loop(l, i, col, acc) ==
    IF i >= Len(l) THEN acc
    ELSE IF l[i + 1] = TAB
         THEN LET tw == TAB_STOP - (col % TAB_STOP)
              IN indent_loop(l, i + 1, col + tw, acc @@ (i :> tw))
         ELSE indent_loop(l, i + 1, col + 1, acc)

\* Mutant of AsciiLine::indent: the columns are counted from 0, not from
\* first_col.
indent_from_column_0(line, first_col) ==
    [l |-> line.l,
     char_widths |-> indent_loop(line.l, 0, 0, <<>>),
     first_col |-> first_col]

\* AsciiLine::indent
indent(line, first_col) ==
    [l |-> line.l,
     char_widths |-> indent_loop(line.l, 0, first_col, <<>>),
     first_col |-> first_col]

\* AsciiLine::new on ASCII text
AsciiLine_new(l) == indent([l |-> l, char_widths |-> <<>>, first_col |-> 0], 0)

\* The loop of AsciiLine::render from Rust index i on: w is the width summed
\* so far, acc the characters pushed so far.
RECURSIVE render_loop(_, _, _, _, _)
render_loop(line, i, w, width, acc) ==
    IF i >= Len(line.l) THEN acc
    ELSE LET cw == IF i \in DOMAIN line.char_widths THEN line.char_widths[i] ELSE 1
         IN IF w + cw > width THEN acc
            ELSE render_loop(line, i + 1, w + cw, width, Append(acc, line.l[i + 1]))

\* Mutant of AsciiLine::render: a character that does not fit is skipped and
\* the scan goes on.
RECURSIVE render_skips_loop(_, _, _, _, _)
render_skips_loop(line, i, w, width, acc) ==
    IF i >= Len(line.l) THEN acc
    ELSE LET cw == IF i \in DOMAIN line.char_widths THEN line.char_widths[i] ELSE 1
         IN IF w + cw > width THEN render_skips_loop(line, i + 1, w, width, acc)
            ELSE render_skips_loop(line, i + 1, w + cw, width, Append(acc, line.l[i + 1]))
render_skips(line, start_col, width) == render_skips_loop(line, start_col, 0, width, <<>>)

\* AsciiLine::render
render(line, start_col, width) == render_loop(line, start_col, 0, width, <<>>)

\* AsciiLine::chars_count
chars_count(line) == Len(line.l)

\* AsciiLine::char_width
char_width(line, idx) ==
    IF idx \in DOMAIN line.char_widths THEN line.char_widths[idx] ELSE 1

----------------------------------------------------------------------------
(* View: src/widgets/view.rs *)

\* View::num_column_width
num_column_width(v) == v.num_lines_padding + 3

\* the row under the cursor
current_row(v) == v.frame_start_row + v.cursor_row

\* self.lines[self.frame_start_row + usize::from(self.cursor_row)]
row_of(v) == v.lines[current_row(v) + 1]

\* View::current_line: None is modelled as <<>> (no line record)
current_line(v) ==
    IF current_row(v) < Len(v.lines) THEN <<row_of(v)>> ELSE <<>>

\* View::col
col(v) == v.line_char_ix

\* Mutant of cap_line_char_ix: the capped index also overwrites the remembered
\* column.
cap_line_char_ix_forgets(v) ==
    LET i == Min(v.max_line_char_ix, saturating_sub(chars_count(row_of(v)), 1))
    IN [v EXCEPT !.line_char_ix = i, !.max_line_char_ix = i]

\* View::cap_line_char_ix
cap_line_char_ix(v) ==
    [v EXCEPT !.line_char_ix =
        Min(v.max_line_char_ix, saturating_sub(chars_count(row_of(v)), 1))]

\* The while loop of View::center_horizontally: returns <<frame_start_char_ix, w>>
RECURSIVE center_loop(_, _, _, _, _)
center_loop(row, fs, w, min_start_char_ix, text_width) ==
    IF fs > min_start_char_ix
    THEN LET cw == char_width(row, fs)
         IN IF w + cw >= text_width
            THEN <<fs, w>>
            ELSE center_loop(row, fs - 1, w + cw, min_start_char_ix, text_width)
    ELSE <<fs, w>>

\* Mutant of center_horizontally: cursor_col = w, without the width of the
\* character the scan stopped on.
center_horizontally_cursor_at_w(v) ==
    LET text_width == v.width - num_column_width(v)
        row == row_of(v)
        row_len == chars_count(row)
        c == Min(v.max_line_char_ix, saturating_sub(row_len, 1))
        min_start_char_ix ==
            IF c < v.frame_start_char_ix + v.width THEN v.frame_start_char_ix ELSE 0
        res == center_loop(row, c, 0, min_start_char_ix, text_width)
    IN [v EXCEPT !.frame_start_char_ix = res[1],
                 !.cursor_col = as_u16(res[2])]

\* Mutant of center_horizontally: the scan never stops at the old frame start.
center_horizontally_rescans(v) ==
    LET text_width == v.width - num_column_width(v)
        row == row_of(v)
        row_len == chars_count(row)
        c == Min(v.max_line_char_ix, saturating_sub(row_len, 1))
        res == center_loop(row, c, 0, 0, text_width)
    IN [v EXCEPT !.frame_start_char_ix = res[1],
                 !.cursor_col = as_u16(res[2] + char_width(row, res[1]) - 1)]

\* Mutant of center_horizontally: the frame is left one character before the
\* place the scan stopped on.
center_horizontally_drifts(v) ==
    LET text_width == v.width - num_column_width(v)
        row == row_of(v)
        row_len == chars_count(row)
        c == Min(v.max_line_char_ix, saturating_sub(row_len, 1))
        min_start_char_ix ==
            IF c < v.frame_start_char_ix + v.width THEN v.frame_start_char_ix ELSE 0
        res == center_loop(row, c, 0, min_start_char_ix, text_width)
    IN [v EXCEPT !.frame_start_char_ix = saturating_sub(res[1], 1),
                 !.cursor_col = as_u16(res[2] + char_width(row, res[1]) - 1)]

\* View::center_horizontally
center_horizontally(v) ==
    LET text_width == v.width - num_column_width(v)
        row == row_of(v)
        row_len == chars_count(row)
        c == Min(v.max_line_char_ix, saturating_sub(row_len, 1))
        min_start_char_ix ==
            IF c < v.frame_start_char_ix + v.width THEN v.frame_start_char_ix ELSE 0
        res == center_loop(row, c, 0, min_start_char_ix, text_width)
    IN [v EXCEPT !.frame_start_char_ix = res[1],
                 !.cursor_col = as_u16(res[2] + char_width(row, res[1]) - 1)]

\* Mutant of move_right: the end-of-line guard is off by one.
move_right_past_end(v) ==
    IF Len(v.lines) = 0 THEN v
    ELSE IF v.line_char_ix >= chars_count(row_of(v)) THEN v
    ELSE center_horizontally(
            [v EXCEPT !.line_char_ix = v.line_char_ix + 1,
                      !.max_line_char_ix = v.line_char_ix + 1])

\* Mutant of move_right: the remembered column is not updated.
move_right_keeps_max(v) ==
    IF Len(v.lines) = 0 THEN v
    ELSE IF v.line_char_ix + 1 >= chars_count(row_of(v)) THEN v
    ELSE center_horizontally([v EXCEPT !.line_char_ix = v.line_char_ix + 1])

\* View::move_right
move_right(v) ==
    IF Len(v.lines) = 0 THEN v
    ELSE IF v.line_char_ix + 1 >= chars_count(row_of(v)) THEN v
    ELSE center_horizontally(
            [v EXCEPT !.line_char_ix = v.line_char_ix + 1,
                      !.max_line_char_ix = v.line_char_ix + 1])

\* Mutant of move_left: the remembered column is not updated.
move_left_keeps_max(v) ==
    IF Len(v.lines) = 0 THEN v
    ELSE IF v.line_char_ix = 0 THEN v
    ELSE center_horizontally([v EXCEPT !.line_char_ix = v.line_char_ix - 1])

\* View::move_left
move_left(v) ==
    IF Len(v.lines) = 0 THEN v
    ELSE IF v.line_char_ix = 0 THEN v
    ELSE center_horizontally(
            [v EXCEPT !.line_char_ix = v.line_char_ix - 1,
                      !.max_line_char_ix = v.line_char_ix - 1])

\* View::move_up
move_up(v) ==
    IF Len(v.lines) = 0 THEN v
    ELSE LET v1 == IF v.cursor_row = 0
                   THEN [v EXCEPT !.frame_start_row = saturating_sub(v.frame_start_row, 1)]
                   ELSE [v EXCEPT !.cursor_row = v.cursor_row - 1]
         IN center_horizontally(cap_line_char_ix(v1))

\* Mutant of move_down: the guard stops the cursor one row before the last.
move_down_stops_early(v) ==
    IF v.frame_start_row + v.cursor_row + 2 >= Len(v.lines) THEN v
    ELSE LET cr == as_u16(Min(v.cursor_row + 1, saturating_sub(Len(v.lines), 1)))
             v1 == IF cr >= v.height
                   THEN [v EXCEPT !.cursor_row = v.height - 1,
                                  !.frame_start_row =
                                      Min(v.frame_start_row + 1,
                                          saturating_sub(Len(v.lines), 1))]
                   ELSE [v EXCEPT !.cursor_row = cr]
         IN center_horizontally(cap_line_char_ix(v1))

\* View::move_down
move_down(v) ==
    IF v.frame_start_row + v.cursor_row + 1 >= Len(v.lines) THEN v
    ELSE LET cr == as_u16(Min(v.cursor_row + 1, saturating_sub(Len(v.lines), 1)))
             v1 == IF cr >= v.height
                   THEN [v EXCEPT !.cursor_row = v.height - 1,
                                  !.frame_start_row =
                                      Min(v.frame_start_row + 1,
                                          saturating_sub(Len(v.lines), 1))]
                   ELSE [v EXCEPT !.cursor_row = cr]
         IN center_horizontally(cap_line_char_ix(v1))

\* View::move_to_sol
move_to_sol(v) ==
    IF Len(v.lines) = 0 THEN v
    ELSE center_horizontally([v EXCEPT !.max_line_char_ix = 0, !.line_char_ix = 0])

\* View::move_to_eol
move_to_eol(v) ==
    IF Len(v.lines) = 0 THEN v
    ELSE LET e == saturating_sub(chars_count(row_of(v)), 1)
         IN center_horizontally([v EXCEPT !.line_char_ix = e, !.max_line_char_ix = e])

\* View::page_up
page_up_keeps_cursor(v) ==
    IF Len(v.lines) = 0 THEN v
    ELSE LET v1 == [v EXCEPT !.frame_start_row =
                                 saturating_sub(v.frame_start_row, v.height)]
         IN center_horizontally(cap_line_char_ix(v1))

page_up(v) ==
    IF Len(v.lines) = 0 THEN v
    ELSE LET v1 == IF v.frame_start_row = 0
                   THEN [v EXCEPT !.cursor_row = 0]
                   ELSE [v EXCEPT !.frame_start_row =
                                      saturating_sub(v.frame_start_row, v.height)]
         IN center_horizontally(cap_line_char_ix(v1))

\* Mutant of page_down: the empty-document guard comes after the frame shift.
page_down_late_guard(v) ==
    LET fsr == v.frame_start_row + v.height
    IN IF Len(v.lines) = 0 THEN [v EXCEPT !.frame_start_row = fsr]
       ELSE LET v1 == IF fsr + v.cursor_row >= Len(v.lines)
                      THEN [v EXCEPT !.frame_start_row = Len(v.lines) - 1,
                                     !.cursor_row = 0]
                      ELSE [v EXCEPT !.frame_start_row = fsr]
            IN center_horizontally(cap_line_char_ix(v1))

\* View::page_down
page_down(v) ==
    IF Len(v.lines) = 0 THEN v
    ELSE LET fsr == v.frame_start_row + v.height
             v1 == IF fsr + v.cursor_row >= Len(v.lines)
                   THEN [v EXCEPT !.frame_start_row = Len(v.lines) - 1,
                                  !.cursor_row = 0]
                   ELSE [v EXCEPT !.frame_start_row = fsr]
         IN center_horizontally(cap_line_char_ix(v1))

goto_recenters_past(v, r) ==
    LET r1 == Min(r, saturating_sub(Len(v.lines), 1))
    IN r1 < v.frame_start_row \/ r1 > v.frame_start_row + v.height

\* View::goto takes the recentering branch (view.rs:232)
goto_recenters(v, r) ==
    LET r1 == Min(r, saturating_sub(Len(v.lines), 1))
    IN r1 < v.frame_start_row \/ r1 >= v.frame_start_row + v.height

\* `usize::from(self.height) / 2 - 1` underflows (view.rs:233)
goto_overflows(v, r) ==
    /\ Len(v.lines) # 0
    /\ goto_recenters(v, r)
    /\ v.height \div 2 < 1

\* Mutant of goto: the column is clamped to the line the cursor was on before
\* the jump.
goto_clamp_old_row(v, r, c) ==
    IF Len(v.lines) = 0 THEN v
    ELSE LET r1 == Min(r, saturating_sub(Len(v.lines), 1))
             fsr == IF goto_recenters(v, r)
                    THEN saturating_sub(r1, wrapping_sub(v.height \div 2, 1))
                    ELSE v.frame_start_row
             cr == as_u16(saturating_sub(r1, fsr))
             v1 == [v EXCEPT !.frame_start_row = fsr, !.cursor_row = cr]
             c1 == Min(c, saturating_sub(chars_count(row_of(v)), 1))
         IN center_horizontally(cap_line_char_ix([v1 EXCEPT !.max_line_char_ix = c1]))

\* View::goto, with the subtraction of view.rs:233 wrapping
goto(v, r, c) ==
    IF Len(v.lines) = 0 THEN v
    ELSE LET r1 == Min(r, saturating_sub(Len(v.lines), 1))
             fsr == IF goto_recenters(v, r)
                    THEN saturating_sub(r1, wrapping_sub(v.height \div 2, 1))
                    ELSE v.frame_start_row
             cr == as_u16(saturating_sub(r1, fsr))
             v1 == [v EXCEPT !.frame_start_row = fsr, !.cursor_row = cr]
             c1 == Min(c, saturating_sub(chars_count(row_of(v1)), 1))
         IN center_horizontally(cap_line_char_ix([v1 EXCEPT !.max_line_char_ix = c1]))

\* View::new, up to and excluding its final goto(0, 0)
View_fields_unindented(size, texts) ==
    LET num_lines_padding == Len(to_string(Len(texts)))
    IN [lines |-> [i \in 1..Len(texts) |-> AsciiLine_new(texts[i])],
        width |-> size[1],
        height |-> size[2],
        num_lines_padding |-> num_lines_padding,
        line_char_ix |-> 0,
        max_line_char_ix |-> 0,
        frame_start_row |-> 0,
        frame_start_char_ix |-> 0,
        cursor_row |-> 0,
        cursor_col |-> 0]

View_fields(size, texts) ==
    LET num_lines_padding == Len(to_string(Len(texts)))
        text_padding == num_lines_padding + 3
    IN [lines |-> [i \in 1..Len(texts) |-> indent(AsciiLine_new(texts[i]), text_padding)],
        width |-> size[1],
        height |-> size[2],
        num_lines_padding |-> num_lines_padding,
        line_char_ix |-> 0,
        max_line_char_ix |-> 0,
        frame_start_row |-> 0,
        frame_start_char_ix |-> 0,
        cursor_row |-> 0,
        cursor_col |-> 0]

\* View::new
View_new(size, texts) == goto(View_fields(size, texts), 0, 0)

----------------------------------------------------------------------------
(* JSON values (serde_json::Value), in one record shape:                   *)
(*   t     "null", "bool", "num", "str", "arr" or "obj"                    *)
(*   text  the literal of a null/bool/number, the content of a string      *)
(*   keys  the keys of an object, in the order the map yields them         *)
(*   kids  the items of an array, or the values of an object's keys        *)

JNull == [t |-> "null", text |-> <<"n", "u", "l", "l">>, keys |-> <<>>, kids |-> <<>>]
JNum(digits) == [t |-> "num", text |-> digits, keys |-> <<>>, kids |-> <<>>]
JStr(s) == [t |-> "str", text |-> s, keys |-> <<>>, kids |-> <<>>]
JArr(items) == [t |-> "arr", text |-> <<>>, keys |-> <<>>, kids |-> items]
JObj(ks, vs) == [t |-> "obj", text |-> <<>>, keys |-> ks, kids |-> vs]

----------------------------------------------------------------------------
(* JsonToken and the tokenizer: src/json/mod.rs, src/json/parser.rs *)

\* a character outside ASCII (U+00E9)
NON_ASCII == "e-acute"

\* (first) byte values of the characters that keys and strings are made of
CodeTable ==
    TAB :> 9 @@ " " :> 32 @@ "\"" :> 34 @@ "#" :> 35 @@ "$" :> 36
    @@ "+" :> 43 @@ "-" :> 45 @@ "/" :> 47 @@ "0" :> 48 @@ "1" :> 49
    @@ "2" :> 50 @@ "3" :> 51 @@ "4" :> 52 @@ "5" :> 53 @@ "6" :> 54
    @@ "7" :> 55 @@ "8" :> 56 @@ "9" :> 57 @@ ":" :> 58 @@ "a" :> 97
    @@ "b" :> 98 @@ "c" :> 99 @@ "d" :> 100 @@ "e" :> 101 @@ "f" :> 102
    @@ "g" :> 103 @@ "h" :> 104 @@ "i" :> 105 @@ "j" :> 106
    @@ "k" :> 107 @@ "l" :> 108 @@ "m" :> 109 @@ "n" :> 110
    @@ "o" :> 111 @@ "p" :> 112 @@ "q" :> 113 @@ "r" :> 114
    @@ "s" :> 115 @@ "t" :> 116 @@ "u" :> 117 @@ "v" :> 118
    @@ "w" :> 119 @@ "x" :> 120 @@ "y" :> 121 @@ "z" :> 122
    @@ NON_ASCII :> 233

Code(ch) == CodeTable[ch]

\* str::is_ascii
is_ascii(text) == \A i \in 1..Len(text) : Code(text[i]) < 128

\* String's Ord: byte-wise lexicographic order, x < y
RECURSIVE str_lt(_, _)
str_lt(x, y) ==
    IF Len(y) = 0 THEN FALSE
    ELSE IF Len(x) = 0 THEN TRUE
    ELSE IF Code(x[1]) # Code(y[1]) THEN Code(x[1]) < Code(y[1])
    ELSE str_lt(Tail(x), Tail(y))

Tok(tag, text) == [tag |-> tag, text |-> text]

QUOTE == "\""
JsonToken_ws(n) == Tok("Whitespace", [i \in 1..n |-> " "])
JsonToken_null == Tok("Null", <<"n", "u", "l", "l">>)
JsonToken_bool(text) == Tok("Bool", text)
JsonToken_number(text) == Tok("Number", text)
JsonToken_array_start == Tok("ArrayStart", <<"[">>)
JsonToken_array_end == Tok("ArrayEnd", <<"]">>)
JsonToken_object_start == Tok("ObjectStart", <<"{">>)
JsonToken_object_end == Tok("ObjectEnd", <<"}">>)
JsonToken_comma == Tok("Comma", <<",">>)
JsonToken_colon == Tok("Colon", <<":">>)

\* s.starts_with("#/")
starts_with_ref(s) == Len(s) >= 2 /\ s[1] = "#" /\ s[2] = "/"

\* Result<_, String>
Ok(x) == [ok |-> TRUE, val |-> x, err |-> <<>>]
Err(text) == [ok |-> FALSE, val |-> <<>>, err |-> text]

\* Mutant of AsciiLine::new: the error is the text without its non-ASCII
\* characters.
AsciiLine_try_new_strips(l) ==
    IF is_ascii(l) THEN Ok(AsciiLine_new(l))
    ELSE Err(SelectSeq(l, LAMBDA ch : Code(ch) < 128))

\* AsciiLine::new
AsciiLine_try_new(l) == IF is_ascii(l) THEN Ok(AsciiLine_new(l)) ELSE Err(l)

\* JsonToken::string
JsonToken_string(s) ==
    LET q == <<QUOTE>> \o s \o <<QUOTE>>
    IN IF is_ascii(q)
       THEN Ok(Tok(IF starts_with_ref(s) THEN "Ref" ELSE "String", q))
       ELSE Err(q)

\* Mutant of JsonToken::object_key: the key is not tested for ASCII.
JsonToken_object_key_unchecked(s) ==
    Ok(Tok("ObjectKey", <<QUOTE>> \o s \o <<QUOTE>>))

\* Mutant of JsonToken::object_key: a key is tagged like a string value.
JsonToken_object_key_tags_ref(s) ==
    LET q == <<QUOTE>> \o s \o <<QUOTE>>
    IN IF is_ascii(q)
       THEN Ok(Tok(IF starts_with_ref(s) THEN "Ref" ELSE "ObjectKey", q))
       ELSE Err(q)

\* JsonToken::object_key
JsonToken_object_key(s) ==
    LET q == <<QUOTE>> \o s \o <<QUOTE>>
    IN IF is_ascii(q) THEN Ok(Tok("ObjectKey", q)) ELSE Err(q)

\* items.sort_by(|o1, o2| (o1.0).cmp(&o2.0)): the positions of the keys in
\* ascending key order (insertion of each key into the sorted prefix)
RECURSIVE insert_sorted(_, _, _)
insert_sorted(ks, sorted, i) ==
    IF sorted = <<>> THEN <<i>>
    ELSE IF str_lt(ks[i], ks[Head(sorted)]) THEN <<i>> \o sorted
    ELSE <<Head(sorted)>> \o insert_sorted(ks, Tail(sorted), i)

\* Mutant of sort_by_key: the items are left in input order.
sort_by_key_input_order(ks, n) == [i \in 1..n |-> i]

RECURSIVE sort_by_key(_, _)
sort_by_key(ks, n) ==
    IF n = 0 THEN <<>> ELSE insert_sorted(ks, sort_by_key(ks, n - 1), n)

\* Mutant of push_last: the token is pushed onto the first line of the child.
push_last_on_first_line(ls, tok) == [ls EXCEPT ![1] = Append(@, tok)]

\* children.last_mut().unwrap().tokens.push(tok)
push_last(ls, tok) == [ls EXCEPT ![Len(ls)] = Append(@, tok)]

\* children[0].tokens.insert(0, ...) for a sequence of tokens
insert_first(ls, toks) == [ls EXCEPT ![1] = toks \o @]

RECURSIVE parse_json_lines(_, _)
RECURSIVE array_loop(_, _, _, _)
RECURSIVE object_loop(_, _, _, _, _)

\* the for loop of the array arm, from item i (1-based) on, acc = lines so far
array_loop(arr, i, indent_, acc) ==
    IF i > Len(arr) THEN Ok(acc)
    ELSE LET children == parse_json_lines(arr[i], indent_ + 4)
         IN IF ~children.ok THEN children
            ELSE LET c1 == IF i < Len(arr)
                           THEN push_last(children.val, JsonToken_comma)
                           ELSE children.val
                     c2 == insert_first(c1, <<JsonToken_ws(indent_ + 4)>>)
                 IN array_loop(arr, i + 1, indent_, acc \o c2)

\* the for loop of the object arm over the sorted items, from position i on
object_loop(obj, order, i, indent_, acc) ==
    IF i > Len(order) THEN Ok(acc)
    ELSE LET children == parse_json_lines(obj.kids[order[i]], indent_ + 4)
             key == JsonToken_object_key(obj.keys[order[i]])
         IN IF ~children.ok THEN children
            ELSE IF ~key.ok THEN key
            ELSE LET c1 == insert_first(children.val,
                               <<JsonToken_ws(indent_ + 4), key.val,
                                 JsonToken_colon, JsonToken_ws(1)>>)
                     c2 == IF i < Len(order)
                           THEN push_last(c1, JsonToken_comma)
                           ELSE c1
                 IN object_loop(obj, order, i + 1, indent_, acc \o c2)

\* Mutant of parse_json_lines: an empty array or object is printed on two
\* lines, like a non-empty one.
parse_json_lines_splits_empty(value, indent_) ==
    CASE value.t = "bool" -> Ok(<< <<JsonToken_bool(value.text)>> >>)
      [] value.t = "null" -> Ok(<< <<JsonToken_null>> >>)
      [] value.t = "num" -> Ok(<< <<JsonToken_number(value.text)>> >>)
      [] value.t = "str" ->
            LET tok == JsonToken_string(value.text)
            IN IF tok.ok THEN Ok(<< <<tok.val>> >>) ELSE tok
      [] value.t = "arr" ->
            LET body == array_loop(value.kids, 1, indent_,
                                   << <<JsonToken_array_start>> >>)
            IN IF ~body.ok THEN body
               ELSE Ok(Append(body.val, <<JsonToken_ws(indent_), JsonToken_array_end>>))
      [] value.t = "obj" ->
            LET order == sort_by_key(value.keys, Len(value.keys))
                body == object_loop(value, order, 1, indent_,
                                    << <<JsonToken_object_start>> >>)
            IN IF ~body.ok THEN body
               ELSE Ok(Append(body.val, <<JsonToken_ws(indent_), JsonToken_object_end>>))

\* parser::parse_json_lines
parse_json_lines(value, indent_) ==
    CASE value.t = "bool" -> Ok(<< <<JsonToken_bool(value.text)>> >>)
      [] value.t = "null" -> Ok(<< <<JsonToken_null>> >>)
      [] value.t = "num" -> Ok(<< <<JsonToken_number(value.text)>> >>)
      [] value.t = "str" ->
            LET tok == JsonToken_string(value.text)
            IN IF tok.ok THEN Ok(<< <<tok.val>> >>) ELSE tok
      [] value.t = "arr" /\ Len(value.kids) = 0 ->
            Ok(<< <<JsonToken_array_start, JsonToken_array_end>> >>)
      [] value.t = "arr" /\ Len(value.kids) > 0 ->
            LET body == array_loop(value.kids, 1, indent_,
                                   << <<JsonToken_array_start>> >>)
            IN IF ~body.ok THEN body
               ELSE Ok(Append(body.val, <<JsonToken_ws(indent_), JsonToken_array_end>>))
      [] value.t = "obj" /\ Len(value.kids) = 0 ->
            Ok(<< <<JsonToken_object_start, JsonToken_object_end>> >>)
      [] value.t = "obj" /\ Len(value.kids) > 0 ->
            LET order == sort_by_key(value.keys, Len(value.keys))
                body == object_loop(value, order, 1, indent_,
                                    << <<JsonToken_object_start>> >>)
            IN IF ~body.ok THEN body
               ELSE Ok(Append(body.val, <<JsonToken_ws(indent_), JsonToken_object_end>>))

\* json::parse_json
parse_json(value) == parse_json_lines(value, 0)

----------------------------------------------------------------------------
(* The path index: src/json/index.rs *)

\* path.join("")
RECURSIVE join(_)
join(path) == IF path = <<>> THEN <<>> ELSE Head(path) \o join(Tail(path))

\* Vec::pop on a possibly empty vector
pop(seq) == IF seq = <<>> THEN <<>> ELSE SubSeq(seq, 1, Len(seq) - 1)

\* HashMap::insert
insert(map, k, v) == [x \in DOMAIN map \cup {k} |-> IF x = k THEN v ELSE map[x]]

ValueTags == {"Null", "Number", "Bool", "String", "Ref"}
StartTags == {"ObjectStart", "ArrayStart"}
EndTags == {"ObjectEnd", "ArrayEnd"}

\* the locals of index() before its loops: refs, path, stack; r and t are the
\* positions of the two for loops (0-based), c the column in the line
index_start ==
    [refs |-> <<>>, path |-> << <<"#">> >>, stack |-> <<>>, r |-> 0, t |-> 0, c |-> 0]

\* stack entries: array_ix is <<>> for None and <<n>> for Some(n)
Frame(array_ix, has_entry) == [array_ix |-> array_ix, has_entry |-> has_entry]

\* the token the loops are at
index_tok(ls, st) == ls[st.r + 1][st.t + 1]

\* index() is past the last token of the last line
index_done(ls, st) == st.r >= Len(ls)

\* stack.last_mut().unwrap() / stack.pop().unwrap() on an empty stack
index_unwrap_fails(st, tok) ==
    /\ tok.tag \in EndTags \cup {"Comma"} \cup ValueTags
    /\ st.stack = <<>>

\* index_start_arm with the insert moved after the push of "/"
index_start_arm_insert_after_push(st, tok) ==
    LET p1 == IF st.stack # <<>> /\ st.stack[Len(st.stack)].array_ix # <<>>
              THEN Append(st.path, to_string(st.stack[Len(st.stack)].array_ix[1]))
              ELSE st.path
    IN [st EXCEPT !.refs = insert(st.refs, join(Append(p1, <<"/">>)), <<st.r, st.c>>),
                  !.path = Append(p1, <<"/">>),
                  !.stack = Append(st.stack,
                                   IF tok.tag = "ArrayStart"
                                   THEN Frame(<<0>>, FALSE)
                                   ELSE Frame(<<>>, FALSE))]

\* The arm for ObjectStart | ArrayStart (index.rs:23-36)
index_start_arm(st, tok) ==
    LET p1 == IF st.stack # <<>> /\ st.stack[Len(st.stack)].array_ix # <<>>
              THEN Append(st.path, to_string(st.stack[Len(st.stack)].array_ix[1]))
              ELSE st.path
    IN [st EXCEPT !.refs = insert(st.refs, join(p1), <<st.r, st.c>>),
                  !.path = Append(p1, <<"/">>),
                  !.stack = Append(st.stack,
                                   IF tok.tag = "ArrayStart"
                                   THEN Frame(<<0>>, FALSE)
                                   ELSE Frame(<<>>, FALSE))]

\* The arm for ArrayEnd | ObjectEnd (index.rs:37-43)
index_end_arm(st) ==
    LET has_entry == st.stack[Len(st.stack)].has_entry
    IN [st EXCEPT !.stack = pop(st.stack),
                  !.path = IF has_entry THEN pop(pop(st.path)) ELSE pop(st.path)]

\* The arm for Comma (index.rs:44-53)
index_comma_arm(st) ==
    LET top == st.stack[Len(st.stack)]
    IN [st EXCEPT !.stack[Len(st.stack)] =
                      Frame(IF top.array_ix # <<>> THEN <<top.array_ix[1] + 1>> ELSE <<>>,
                            TRUE),
                  !.path = pop(st.path)]

\* The arm for ObjectKey (index.rs:54-62)
index_key_arm(st, tok) ==
    [st EXCEPT !.path = Append(st.path, SubSeq(tok.text, 2, Len(tok.text) - 1))]

\* The arm for Null | Number | Bool | String | Ref (index.rs:63-76)
index_value_arm(st) ==
    LET top == st.stack[Len(st.stack)]
        p1 == IF top.array_ix # <<>>
              THEN Append(st.path, to_string(top.array_ix[1]))
              ELSE st.path
    IN [st EXCEPT !.stack[Len(st.stack)] = Frame(top.array_ix, TRUE),
                  !.path = p1,
                  !.refs = insert(st.refs, join(p1), <<st.r, st.c>>)]

\* `c += tok.chars_count()` and the advance of the two for loops
index_advance(ls, st, tok) ==
    IF st.t + 1 < Len(ls[st.r + 1])
    THEN [st EXCEPT !.t = st.t + 1, !.c = st.c + Len(tok.text)]
    ELSE [st EXCEPT !.r = st.r + 1, !.t = 0, !.c = 0]

\* one iteration of the inner loop of index()
index_step(ls, st) ==
    LET tok == index_tok(ls, st)
        st1 == CASE tok.tag \in StartTags -> index_start_arm(st, tok)
                 [] tok.tag \in EndTags -> index_end_arm(st)
                 [] tok.tag = "Comma" -> index_comma_arm(st)
                 [] tok.tag = "ObjectKey" -> index_key_arm(st, tok)
                 [] tok.tag \in ValueTags -> index_value_arm(st)
                 [] OTHER -> st
    IN index_advance(ls, st1, tok)

\* the characters of a line
line_text(toks) == join([i \in 1..Len(toks) |-> toks[i].text])

----------------------------------------------------------------------------
(* Commands: parse_goto (src/main.rs) *)

\* Option<_>
None == [some |-> FALSE, val |-> 0]
Some(x) == [some |-> TRUE, val |-> x]

\* str::split(sep): the segments between the separators, from character i on,
\* seg being the segment read so far
RECURSIVE split_loop(_, _, _, _)
split_loop(input, sep, i, seg) ==
    IF i > Len(input) THEN <<seg>>
    ELSE IF input[i] = sep THEN <<seg>> \o split_loop(input, sep, i + 1, <<>>)
    ELSE split_loop(input, sep, i + 1, Append(seg, input[i]))

split(input, sep) == split_loop(input, sep, 1, <<>>)

is_digit(ch) == \E d \in 0..9 : Digit(d) = ch
to_digit(ch) == CHOOSE d \in 0..9 : Digit(d) = ch

\* The digit loop of usize::from_str: an invalid digit and a value above
\* usize::MAX (checked_mul, checked_add) are errors.
RECURSIVE from_str_loop(_, _, _)
from_str_loop(digits, i, result) ==
    IF i > Len(digits) THEN Some(result)
    ELSE IF ~is_digit(digits[i]) THEN None
    ELSE IF result > (usize_MAX - to_digit(digits[i])) \div 10 THEN None
    ELSE from_str_loop(digits, i + 1, result * 10 + to_digit(digits[i]))

\* s.parse::<usize>().ok(): decimal digits after an optional '+'; the empty
\* text and a sign alone are errors.  usize::MAX is the stand-in of this model.
parse_usize(s) ==
    IF s = <<>> THEN None
    ELSE IF Len(s) = 1 /\ s[1] \in {"+", "-"} THEN None
    ELSE IF s[1] = "+" THEN from_str_loop(Tail(s), 1, 0)
    ELSE from_str_loop(s, 1, 0)

\* Option<(Option<usize>, Option<usize>)>
NoGoto == [some |-> FALSE, r |-> None, c |-> None]
SomeGoto(r, c) == [some |-> TRUE, r |-> r, c |-> c]

\* Mutant of parse_goto: the numbers stay 1-based.
parse_goto_one_based(input) ==
    LET parts == split(input, ":")
        rs == parts[1]
        d == parse_usize(rs)
    IN IF ~d.some /\ rs # <<>> THEN NoGoto
       ELSE LET r == IF d.some THEN Some(d.val) ELSE None
            IN IF Len(parts) = 1 THEN SomeGoto(r, None)
               ELSE LET c == parse_usize(parts[2])
                    IN IF ~c.some THEN NoGoto
                       ELSE IF Len(parts) = 2
                            THEN SomeGoto(r, Some(c.val))
                            ELSE NoGoto

\* parse_goto
parse_goto(input) ==
    LET parts == split(input, ":")
        rs == parts[1]
        d == parse_usize(rs)
    IN IF ~d.some /\ rs # <<>> THEN NoGoto
       ELSE LET r == IF d.some THEN Some(saturating_sub(d.val, 1)) ELSE None
            IN IF Len(parts) = 1 THEN SomeGoto(r, None)
               ELSE LET c == parse_usize(parts[2])
                    IN IF ~c.some THEN NoGoto
                       ELSE IF Len(parts) = 2
                            THEN SomeGoto(r, Some(saturating_sub(c.val, 1)))
                            ELSE NoGoto

----------------------------------------------------------------------------
(* StatusLine: src/widgets/status_line.rs, with the editing of its buffer   *)
(* (AsciiLine<String>, src/widgets/ascii_line.rs:41-67)                     *)

\* AsciiLine::clear
AsciiLine_clear(line) == [line EXCEPT !.l = <<>>, !.char_widths = <<>>]

\* AsciiLine::insert, for at <= chars_count()
AsciiLine_insert(line, at, c) ==
    LET line1 == [line EXCEPT !.l = SubSeq(line.l, 1, at) \o <<c>>
                                    \o SubSeq(line.l, at + 1, Len(line.l))]
    IN IF c = TAB \/ DOMAIN line.char_widths # {}
       THEN indent(line1, line.first_col)
       ELSE line1

AsciiLine_remove_keeps_widths(line, at) ==
    [line EXCEPT !.l = SubSeq(line.l, 1, at) \o SubSeq(line.l, at + 2, Len(line.l))]

\* AsciiLine::remove, for at < chars_count()
AsciiLine_remove(line, at) ==
    LET line1 == [line EXCEPT !.l = SubSeq(line.l, 1, at)
                                    \o SubSeq(line.l, at + 2, Len(line.l))]
    IN IF DOMAIN line.char_widths # {}
       THEN indent(line1, line.first_col)
       ELSE line1

\* StatusLineMode::id
StatusLineMode_id(mode) == IF mode = "Query" THEN 0 ELSE 1

\* StatusLine::new
StatusLine_new(cursor_row, width) ==
    [frame_start_col |-> 0,
     col_char_ix |-> 0,
     cursor_row |-> cursor_row,
     cursor_col |-> 0,
     width |-> width,
     buffer |-> AsciiLine_new(<<>>),
     mode |-> "Command",
     error |-> None,
     history |-> << <<>>, <<>> >>,
     history_t |-> None,
     panicked |-> FALSE]

\* a call that panics leaves the status line as it is, marked
StatusLine_panic(s) == [s EXCEPT !.panicked = TRUE]

\* StatusLine::text: `&self.buffer.line()[1..]` panics on an empty buffer
StatusLine_text_fails(s) == s.buffer.l = <<>>
StatusLine_text(s) == Tail(s.buffer.l)

\* The loop of StatusLine::center_horizontally and its last assignment
RECURSIVE StatusLine_center_loop(_, _, _)
StatusLine_center_loop(s, frame_start_col, w) ==
    IF frame_start_col > 0 /\ w + char_width(s.buffer, frame_start_col) < s.width
    THEN StatusLine_center_loop(s, frame_start_col - 1,
                                w + char_width(s.buffer, frame_start_col))
    ELSE [s EXCEPT !.frame_start_col = frame_start_col,
                   !.cursor_col = w + char_width(s.buffer, frame_start_col) - 1]

\* StatusLine::center_horizontally
StatusLine_center_horizontally(s) == StatusLine_center_loop(s, s.col_char_ix, 0)

\* StatusLine::left
StatusLine_left(s) ==
    IF s.col_char_ix <= 1 THEN s
    ELSE StatusLine_center_horizontally([s EXCEPT !.col_char_ix = s.col_char_ix - 1])

\* StatusLine::right
StatusLine_right(s) ==
    IF s.col_char_ix >= chars_count(s.buffer) THEN s
    ELSE StatusLine_center_horizontally([s EXCEPT !.col_char_ix = s.col_char_ix + 1])

\* StatusLine::insert
StatusLine_insert(s, c) ==
    IF ~is_ascii(<<c>>) THEN s
    ELSE IF s.col_char_ix > chars_count(s.buffer) THEN StatusLine_panic(s)
    ELSE StatusLine_right([s EXCEPT !.buffer = AsciiLine_insert(s.buffer, s.col_char_ix, c)])

\* StatusLine::remove: `self.col_char_ix - 1` underflows at 0, and
\* String::remove panics past the end
StatusLine_remove(s) ==
    IF s.col_char_ix = 0 \/ s.col_char_ix - 1 >= chars_count(s.buffer)
    THEN StatusLine_panic(s)
    ELSE StatusLine_left([s EXCEPT !.buffer = AsciiLine_remove(s.buffer, s.col_char_ix - 1)])

\* StatusLine::clear
StatusLine_clear(s) ==
    [s EXCEPT !.buffer = AsciiLine_clear(s.buffer),
              !.cursor_col = 0,
              !.frame_start_col = 0,
              !.col_char_ix = 0,
              !.error = None,
              !.history_t = None,
              !.mode = "Command"]

\* StatusLine::activate
StatusLine_activate(s, mode) ==
    StatusLine_insert([StatusLine_clear(s) EXCEPT !.mode = mode],
                      IF mode = "Command" THEN ":" ELSE "#")

\* StatusLine::set_error
StatusLine_set_error(s, error) == [s EXCEPT !.error = Some(error)]

\* StatusLine::no_error
StatusLine_no_error(s) == [s EXCEPT !.error = None]

\* StatusLine::is_empty
StatusLine_is_empty(s) == chars_count(s.buffer) = 0

\* the history of the mode the status line is in
StatusLine_history(s) == s.history[StatusLineMode_id(s.mode) + 1]

\* StatusLine::save_history
StatusLine_save_history(s) ==
    [s EXCEPT !.history[StatusLineMode_id(s.mode) + 1] = Append(@, s.buffer)]

\* StatusLine::copy_buffer_from_history
StatusLine_copy_buffer_from_history(s) ==
    IF s.history_t.val < Len(StatusLine_history(s))
    THEN LET l == StatusLine_history(s)[s.history_t.val + 1]
         IN StatusLine_center_horizontally(
                [s EXCEPT !.buffer = l, !.col_char_ix = chars_count(l)])
    ELSE s

\* StatusLine::history_up
StatusLine_history_up(s) ==
    IF s.history_t.some /\ s.history_t.val = 0 THEN s
    ELSE StatusLine_copy_buffer_from_history(
             [s EXCEPT !.history_t =
                 IF s.history_t.some THEN Some(s.history_t.val - 1)
                 ELSE Some(saturating_sub(Len(StatusLine_history(s)), 1))])

\* StatusLine::history_down
StatusLine_history_down(s) ==
    IF ~s.history_t.some THEN s
    ELSE IF s.history_t.val >= Len(StatusLine_history(s)) THEN s
    ELSE IF s.history_t.val + 1 >= Len(StatusLine_history(s))
    THEN StatusLine_activate(s, s.mode)
    ELSE StatusLine_copy_buffer_from_history(
             [s EXCEPT !.history_t = Some(s.history_t.val + 1)])

\* The error <StatusLine as Widget>::render writes on the message row, if
\* there is one (its cut to width columns, colours and cursor movements left
\* out).  Without an error it writes the buffer, which is in the state.
StatusLine_render(s) == s.error

----------------------------------------------------------------------------
(* Ui: src/main.rs.  A Ui value is the record of focus, status_line and     *)
(* view, with index (the finished index) and lines (the JSON lines the view *)
(* shows); exit tells how the handler of the key returned: "no" for         *)
(* Ok(false), "quit" for Ok(true), "error" for Err(_), "panic" for a panic. *)
(* The help view is a View over HELP_TEXT of its own: it is not part of the *)
(* record.                                                                  *)

\* termion's Key: Key(code) for the named keys, Char(c) for Key::Char(c)
Key(code) == [code |-> code, ch |-> ""]
Char(c) == [code |-> "Char", ch |-> c]
ENTER == "\n"

\* index(): all the iterations of its loops
RECURSIVE index_loop(_, _)
index_loop(ls, st) == IF index_done(ls, st) THEN st ELSE index_loop(ls, index_step(ls, st))

index(ls) == index_loop(ls, index_start).refs

\* Ui::new for a terminal of the given size
Ui_new(ls, refs, size) ==
    [focus |-> "View",
     status_line |-> StatusLine_new(size[2] - 2, size[1]),
     view |-> View_new(<<size[1], size[2] - 2>>, [i \in 1..Len(ls) |-> line_text(ls[i])]),
     lines |-> ls,
     index |-> refs,
     exit |-> "no"]

\* the fields of a Ui that are neither the view nor the document
Ui_fields(u) == [focus |-> u.focus, status_line |-> u.status_line, exit |-> u.exit]

\* JsonLine::token_at from token i on, col_ characters into the line
RECURSIVE token_at_loop(_, _, _, _)
token_at_loop(toks, idx, i, col_) ==
    IF i > Len(toks) THEN None
    ELSE IF idx < col_ + Len(toks[i].text) THEN Some(toks[i])
    ELSE token_at_loop(toks, idx, i + 1, col_ + Len(toks[i].text))

\* JsonLine::token_at
token_at(toks, idx) == token_at_loop(toks, idx, 1, 0)

\* the closure main() gives to Ui::new as get_current_query (main.rs:148-162)
get_current_query(u) ==
    IF current_row(u.view) >= Len(u.lines) THEN None
    ELSE LET jt == token_at(u.lines[current_row(u.view) + 1], col(u.view))
         IN IF jt.some /\ jt.val.tag = "Ref"
            THEN Some(SubSeq(jt.val.text, 2, Len(jt.val.text) - 1))
            ELSE None

\* self.view.goto(r, c): the subtraction of view.rs:233 panics when overflow
\* checks are on
Ui_goto(u, r, c) ==
    IF overflow_checks /\ goto_overflows(u.view, r)
    THEN [u EXCEPT !.exit = "panic"]
    ELSE [u EXCEPT !.view = goto(u.view, r, c)]

\* what a command or query that succeeded does after its goto
Ui_executed(u) ==
    IF u.exit = "panic" THEN u
    ELSE [u EXCEPT !.status_line = StatusLine_clear(StatusLine_save_history(u.status_line)),
                   !.focus = "View"]

\* `set_error(AsciiLine::new(format!(..)).map_err(Error::NotUnicode)?)`: the
\* message is kept as its format string and the text put into it; the format
\* strings are ASCII, so AsciiLine::new fails when the text is not.
Ui_set_error(u, format, arg) ==
    IF is_ascii(arg)
    THEN [u EXCEPT !.status_line =
              StatusLine_set_error(u.status_line, [format |-> format, arg |-> arg])]
    ELSE [u EXCEPT !.exit = "error"]

\* str::trim_end_matches('/')
RECURSIVE trim_end_matches(_, _)
trim_end_matches(s, ch) ==
    IF s # <<>> /\ s[Len(s)] = ch THEN trim_end_matches(SubSeq(s, 1, Len(s) - 1), ch)
    ELSE s

NOT_FOUND == "{} not found"
INVALID_GOTO == "invalid goto line and column ref: {} "

\* Ui::goto_ref looking the query up as it was typed
goto_ref_untrimmed(u, q) ==
    IF q \in DOMAIN u.index
    THEN LET rc == u.index[q]
         IN Ui_executed(Ui_goto(u, rc[1], rc[2]))
    ELSE Ui_set_error(u, NOT_FOUND, q)

\* Ui::goto_ref
goto_ref(u, q) ==
    IF trim_end_matches(q, "/") \in DOMAIN u.index
    THEN LET rc == u.index[trim_end_matches(q, "/")]
         IN Ui_executed(Ui_goto(u, rc[1], rc[2]))
    ELSE Ui_set_error(u, NOT_FOUND, q)

\* Ui::update_view
update_view(u, ev) ==
    CASE ev = Char("q") -> [u EXCEPT !.exit = "quit"]
      [] ev \in {Key("Right"), Char("l")} -> [u EXCEPT !.view = move_right(u.view)]
      [] ev \in {Key("Left"), Char("h")} -> [u EXCEPT !.view = move_left(u.view)]
      [] ev \in {Key("Up"), Char("k")} -> [u EXCEPT !.view = move_up(u.view)]
      [] ev \in {Key("Down"), Char("j")} -> [u EXCEPT !.view = move_down(u.view)]
      [] ev = Char("0") -> [u EXCEPT !.view = move_to_sol(u.view)]
      [] ev = Char("$") -> [u EXCEPT !.view = move_to_eol(u.view)]
      [] ev = Key("PageUp") -> [u EXCEPT !.view = page_up(u.view)]
      [] ev = Key("PageDown") -> [u EXCEPT !.view = page_down(u.view)]
      [] ev = Char(":") ->
            [u EXCEPT !.focus = "StatusLine",
                      !.status_line = StatusLine_activate(u.status_line, "Command")]
      [] ev = Char("#") ->
            [u EXCEPT !.focus = "StatusLine",
                      !.status_line = StatusLine_activate(u.status_line, "Query")]
      [] ev = Char(ENTER) ->
            IF get_current_query(u).some THEN goto_ref(u, get_current_query(u).val)
            ELSE u
      [] OTHER -> u

\* The arm of Ui::update_status_line for Enter in Command mode, mutated: the
\* text that parse_goto rejects is executed as a jump to the first line.
update_status_line_command_forgiving(u) ==
    IF StatusLine_text_fails(u.status_line)
    THEN [u EXCEPT !.status_line = StatusLine_panic(u.status_line), !.exit = "panic"]
    ELSE LET input == StatusLine_text(u.status_line)
             rc == parse_goto(input)
         IN IF input = <<"q">> THEN [u EXCEPT !.exit = "quit"]
            ELSE IF input = <<"h">>
            THEN [u EXCEPT !.status_line = StatusLine_clear(u.status_line),
                           !.focus = "Help"]
            ELSE IF ~rc.some
            THEN Ui_executed(Ui_goto(u, 0, 0))
            ELSE Ui_executed(Ui_goto(u,
                     IF rc.r.some THEN rc.r.val ELSE current_row(u.view),
                     IF rc.c.some THEN rc.c.val ELSE 0))

\* The arm of Ui::update_status_line for Enter in Command mode
update_status_line_command(u) ==
    IF StatusLine_text_fails(u.status_line)
    THEN [u EXCEPT !.status_line = StatusLine_panic(u.status_line), !.exit = "panic"]
    ELSE LET input == StatusLine_text(u.status_line)
             rc == parse_goto(input)
         IN IF input = <<"q">> THEN [u EXCEPT !.exit = "quit"]
            ELSE IF input = <<"h">>
            THEN [u EXCEPT !.status_line = StatusLine_clear(u.status_line),
                           !.focus = "Help"]
            ELSE IF ~rc.some
            THEN Ui_set_error(u, INVALID_GOTO, input)
            ELSE Ui_executed(Ui_goto(u,
                     IF rc.r.some THEN rc.r.val ELSE current_row(u.view),
                     IF rc.c.some THEN rc.c.val ELSE 0))

\* The arm of Ui::update_status_line for Enter in Query mode
update_status_line_query(u) ==
    IF StatusLine_text_fails(u.status_line)
    THEN [u EXCEPT !.status_line = StatusLine_panic(u.status_line), !.exit = "panic"]
    ELSE goto_ref(u, <<"#">> \o StatusLine_text(u.status_line))

\* a call on the status line, which may panic
Ui_status_line(u, s) ==
    IF s.panicked THEN [u EXCEPT !.status_line = s, !.exit = "panic"]
    ELSE [u EXCEPT !.status_line = s]

\* Ui::update_status_line
update_status_line(u, ev) ==
    CASE ev = Key("Esc") ->
            [u EXCEPT !.status_line = StatusLine_clear(u.status_line), !.focus = "View"]
      [] ev = Key("Up") -> Ui_status_line(u, StatusLine_history_up(u.status_line))
      [] ev = Key("Down") -> Ui_status_line(u, StatusLine_history_down(u.status_line))
      [] ev = Char(ENTER) ->
            IF u.status_line.mode = "Command" THEN update_status_line_command(u)
            ELSE update_status_line_query(u)
      [] ev.code = "Char" /\ ev # Char(ENTER) ->
            Ui_status_line(u, StatusLine_insert(u.status_line, ev.ch))
      [] ev = Key("Backspace") ->
            LET s == StatusLine_remove(u.status_line)
            IN IF s.panicked THEN Ui_status_line(u, s)
               ELSE IF StatusLine_is_empty(s)
               THEN [u EXCEPT !.status_line = StatusLine_clear(s), !.focus = "View"]
               ELSE [u EXCEPT !.status_line = s]
      [] ev = Key("Left") -> [u EXCEPT !.status_line = StatusLine_left(u.status_line)]
      [] ev = Key("Right") -> [u EXCEPT !.status_line = StatusLine_right(u.status_line)]
      [] OTHER -> u

\* Ui::update_help_view: the keys that move the help view leave the Ui as it is
update_help_view(u, ev) ==
    IF ev \in {Char("q"), Key("Esc")} THEN [u EXCEPT !.focus = "View"] ELSE u

\* The error the body of the loop of Ui::run draws after the handler of the
\* key has returned Ok(false): none when it draws the help view.
Ui_drawn(u) == IF u.focus = "Help" THEN None ELSE StatusLine_render(u.status_line)

\* The handler of the key for the focus (the match of Ui::run)
Ui_handler(u, ev) ==
    CASE u.focus = "View" -> update_view(u, ev)
      [] u.focus = "StatusLine" -> update_status_line(u, ev)
      [] u.focus = "Help" -> update_help_view(u, ev)

\* The body of the loop of Ui::run for one key: the handler of the focus;
\* unless it quits or fails, the drawing, and status_line.no_error().
Ui_key(u, ev) ==
    CHOOSE k \in {IF u1.exit # "no"
                  THEN [ui |-> u1, drawn |-> None]
                  ELSE [ui |-> [u1 EXCEPT !.status_line = StatusLine_no_error(u1.status_line)],
                        drawn |-> Ui_drawn(u1)] : u1 \in {Ui_handler(u, ev)}} : TRUE

----------------------------------------------------------------------------
(* The documents and terminals the View is built over *)

Rep(ch, n) == [i \in 1..n |-> ch]

DocEmpty == <<>>
DocSticky == << Rep("a", 9), <<>>, Rep("a", 3), <<"a", TAB, "a", "a">>, Rep("a", 5), <<"a">> >>
DocTabs == << <<"a", "a", "a", "a", TAB, "a", "a">>, Rep("a", 6), <<TAB>> >>

\* ten lines: the line numbers take two digits
DocLong == [i \in 1..10 |-> <<"a", TAB>>]

Docs == {DocEmpty, DocSticky, DocTabs, DocLong}

\* terminal widths: all leave at least one column after the gutter, which is
\* 4 columns for a document of < 10 lines and 5 for one of ten
Widths == {6, 9, 20}
Heights == 1..MaxHeight

----------------------------------------------------------------------------
(* The state machine: a View and the navigation calls made on it *)

\* no call of render yet
\* line is the line render was called on
NoRender == [of |-> "none", line |-> <<>>, start_col |-> 0, width |-> 0, out |-> <<>>]
NoOp == [op |-> "new", r |-> 0, c |-> 0]
\* no Ui: a terminal of 6 columns and 3 rows over no lines
NoUi == Ui_fields(Ui_new(<<>>, <<>>, <<6, 3>>))
\* nothing drawn yet
NoDrawn == None
\* parse_goto not called yet
NoParse == [input |-> <<>>, done |-> FALSE, out |-> NoGoto]
Op(name) == [op |-> name, r |-> 0, c |-> 0]

Init ==
    /\ \E d \in Docs, w \in Widths, h \in Heights :
           view = View_new(<<w, h>>, d)
    /\ overflow_checks \in BOOLEAN
    /\ panicked = FALSE
    /\ last_op = NoOp
    /\ json = JNull
    /\ lines = parse_json(json)
    /\ ix = index_start
    /\ ascii_text = <<>>
    /\ ascii_line = AsciiLine_try_new(ascii_text)
    /\ rendered = NoRender
    /\ ui = NoUi
    /\ drawn = NoDrawn
    /\ parsed = NoParse

Call(name, v) ==
    /\ ~panicked
    /\ view' = v
    /\ last_op' = Op(name)
    /\ UNCHANGED <<overflow_checks, panicked, json_vars, text_vars, ui_vars>>

MoveRight == Call("move_right", move_right(view))
MoveLeft == Call("move_left", move_left(view))
MoveUp == Call("move_up", move_up(view))
MoveDown == Call("move_down", move_down(view))
MoveToSol == Call("move_to_sol", move_to_sol(view))
MoveToEol == Call("move_to_eol", move_to_eol(view))
PageUp == Call("page_up", page_up(view))
PageDown == Call("page_down", page_down(view))

\* goto(r, c) that completes
Goto ==
    \E r \in 0..MaxGotoRow, c \in 0..MaxGotoCol :
        /\ ~panicked
        /\ ~(overflow_checks /\ goto_overflows(view, r))
        /\ view' = goto(view, r, c)
        /\ last_op' = [op |-> "goto", r |-> r, c |-> c]
        /\ UNCHANGED <<overflow_checks, panicked, json_vars, text_vars, ui_vars>>

\* goto(r, c) that panics with "attempt to subtract with overflow"
GotoPanic ==
    \E r \in 0..MaxGotoRow :
        /\ ~panicked
        /\ overflow_checks /\ goto_overflows(view, r)
        /\ panicked' = TRUE
        /\ UNCHANGED <<view, overflow_checks, last_op, json_vars, text_vars, ui_vars>>

Next ==
    \/ MoveRight
    \/ MoveLeft
    \/ MoveUp
    \/ MoveDown
    \/ MoveToSol
    \/ MoveToEol
    \/ PageUp
    \/ PageDown
    \/ Goto
    \/ GotoPanic

Spec == Init /\ [][Next]_vars

----------------------------------------------------------------------------
(* The JSON documents that are loaded *)

Keys == { <<"a">>, <<"b">>, <<"a", "/", "b">> }
Leaves == { JNum(<<"1">>), JStr(<<"#", "/", "a">>) }

\* the JSON values made of exactly n values (containers and leaves)
RECURSIVE ValuesOfSize(_)
ValuesOfSize(n) ==
    IF n = 1 THEN Leaves \cup {JArr(<<>>), JObj(<<>>, <<>>)}
    ELSE LET one == ValuesOfSize(n - 1)
             two == UNION { { <<x, y>> : x \in ValuesOfSize(i),
                                         y \in ValuesOfSize(n - 1 - i) } :
                            i \in 1..(n - 2) }
         IN {JArr(<<x>>) : x \in one}
            \cup {JArr(p) : p \in two}
            \cup {JObj(<<k>>, <<x>>) : k \in Keys, x \in one}
            \cup {JObj(<<k[1], k[2]>>, p) :
                      k \in {kk \in Keys \X Keys : kk[1] # kk[2]}, p \in two}

JsonDocs == UNION { ValuesOfSize(n) : n \in 1..MaxNodes }

----------------------------------------------------------------------------
(* The state machine of loading a document: parse_json, then index() token  *)
(* by token (main.rs:145-146)                                               *)

InitIndex ==
    /\ json \in JsonDocs
    /\ lines = parse_json(json)
    /\ ix = index_start
    /\ view = View_new(<<6, 1>>, <<>>)
    /\ overflow_checks = FALSE
    /\ panicked = FALSE
    /\ last_op = NoOp
    /\ ascii_text = <<>>
    /\ ascii_line = AsciiLine_try_new(ascii_text)
    /\ rendered = NoRender
    /\ ui = NoUi
    /\ drawn = NoDrawn
    /\ parsed = NoParse

\* index() has a token left to look at
IndexAt(tags) ==
    /\ ~panicked
    /\ lines.ok
    /\ ~index_done(lines.val, ix)
    /\ index_tok(lines.val, ix).tag \in tags

\* the token index() is looking at
cur_tok == index_tok(lines.val, ix)

IndexContainerStart ==
    /\ IndexAt(StartTags)
    /\ ix' = index_advance(lines.val, index_start_arm(ix, cur_tok), cur_tok)
    /\ UNCHANGED <<view, overflow_checks, panicked, last_op, json, lines, text_vars, ui_vars>>

IndexContainerEnd ==
    /\ IndexAt(EndTags)
    /\ ~index_unwrap_fails(ix, cur_tok)
    /\ ix' = index_advance(lines.val, index_end_arm(ix), cur_tok)
    /\ UNCHANGED <<view, overflow_checks, panicked, last_op, json, lines, text_vars, ui_vars>>

IndexComma ==
    /\ IndexAt({"Comma"})
    /\ ~index_unwrap_fails(ix, cur_tok)
    /\ ix' = index_advance(lines.val, index_comma_arm(ix), cur_tok)
    /\ UNCHANGED <<view, overflow_checks, panicked, last_op, json, lines, text_vars, ui_vars>>

IndexObjectKey ==
    /\ IndexAt({"ObjectKey"})
    /\ ix' = index_advance(lines.val, index_key_arm(ix, cur_tok), cur_tok)
    /\ UNCHANGED <<view, overflow_checks, panicked, last_op, json, lines, text_vars, ui_vars>>

IndexValue ==
    /\ IndexAt(ValueTags)
    /\ ~index_unwrap_fails(ix, cur_tok)
    /\ ix' = index_advance(lines.val, index_value_arm(ix), cur_tok)
    /\ UNCHANGED <<view, overflow_checks, panicked, last_op, json, lines, text_vars, ui_vars>>

\* the `_ => {}` arm: Whitespace and Colon
IndexOther ==
    /\ IndexAt({"Whitespace", "Colon"})
    /\ ix' = index_advance(lines.val, ix, cur_tok)
    /\ UNCHANGED <<view, overflow_checks, panicked, last_op, json, lines, text_vars, ui_vars>>

\* unwrap() on None: "called `Option::unwrap()` on a `None` value"
IndexPanic ==
    /\ IndexAt(EndTags \cup {"Comma"} \cup ValueTags)
    /\ index_unwrap_fails(ix, cur_tok)
    /\ panicked' = TRUE
    /\ UNCHANGED <<view, overflow_checks, last_op, json, lines, ix, text_vars, ui_vars>>

NextIndex ==
    \/ IndexContainerStart
    \/ IndexContainerEnd
    \/ IndexComma
    \/ IndexObjectKey
    \/ IndexValue
    \/ IndexOther
    \/ IndexPanic

SpecIndex == InitIndex /\ [][NextIndex]_vars

----------------------------------------------------------------------------
(* The state machine of the texts: AsciiLine::new on a text, indent on the  *)
(* line, and parse_json on the documents that hold the text                 *)

Chars == {"a", "#", "/", TAB, NON_ASCII}

RECURSIVE TextsOfLen(_)
TextsOfLen(n) ==
    IF n = 0 THEN {<<>>}
    ELSE {Append(t, ch) : t \in TextsOfLen(n - 1), ch \in Chars}

Texts == UNION {TextsOfLen(n) : n \in 0..MaxTextLen}

\* the strings that stand next to the text in a document
Others == {<<"b">>, <<NON_ASCII, "b">>}

\* the documents that hold the text t as a string value or as a key
DocsAround(t) ==
    {JStr(t), JArr(<<JStr(t)>>), JArr(<<JNum(<<"1">>), JArr(<<JStr(t)>>)>>),
     JObj(<<t>>, <<JNull>>), JObj(<<t>>, <<JStr(t)>>),
     JArr(<<JObj(<<t>>, <<JArr(<<>>)>>), JNull>>)}
    \cup {JArr(<<JStr(t), JStr(o)>>) : o \in Others}
    \cup {JObj(<<t>>, <<JStr(o)>>) : o \in Others}
    \cup {JObj(<<o>>, <<JStr(t)>>) : o \in Others}
    \cup {JObj(<<t, o>>, <<JNull, JObj(<<>>, <<>>)>>) : o \in Others \ {t}}

InitText ==
    /\ ascii_text \in Texts
    /\ ascii_line = AsciiLine_try_new(ascii_text)
    /\ rendered = NoRender
    /\ ui = NoUi
    /\ drawn = NoDrawn
    /\ parsed = NoParse
    /\ json = JNull
    /\ lines = parse_json(json)
    /\ ix = index_start
    /\ view = View_new(<<6, 1>>, <<>>)
    /\ overflow_checks = FALSE
    /\ panicked = FALSE
    /\ last_op = NoOp

\* line.indent(first_col) on the line AsciiLine::new returned
Indent ==
    \E first_col \in 0..MaxFirstCol :
        /\ ascii_line.ok
        /\ ascii_line' = Ok(indent(ascii_line.val, first_col))
        /\ last_op' = [op |-> "indent", r |-> 0, c |-> first_col]
        /\ UNCHANGED <<view, overflow_checks, panicked, json_vars, ascii_text, rendered, ui_vars>>

\* parse_json on a document that holds the text
ParseJson ==
    \E doc \in DocsAround(ascii_text) :
        /\ json' = doc
        /\ lines' = parse_json(doc)
        /\ last_op' = Op("parse_json")
        /\ UNCHANGED <<view, overflow_checks, panicked, ix, text_vars, ui_vars>>

NextText ==
    \/ Indent
    \/ ParseJson

SpecText == InitText /\ [][NextText]_vars

----------------------------------------------------------------------------
(* JsonLine as a Line (json/mod.rs:170-223): a JSON line that has been      *)
(* indented is the sequence of the AsciiLines of its tokens.  The colour    *)
(* escapes that JsonToken::render puts before the text are left out.        *)

\* the columns the characters of an AsciiLine take
line_width(l) == LET RECURSIVE sum(_)
                     sum(i) == IF i = 0 THEN 0
                               ELSE sum(i - 1) + (IF (i - 1) \in DOMAIN l.char_widths
                                                  THEN l.char_widths[i - 1] ELSE 1)
                 IN sum(Len(l.l))

\* <JsonLine as Line>::indent on the tokens of a line, from token i on
RECURSIVE JsonLine_indent_loop(_, _, _, _)
JsonLine_indent_loop(toks, i, first_col, acc) ==
    IF i > Len(toks) THEN acc
    ELSE LET t == indent(AsciiLine_new(toks[i].text), first_col)
         IN JsonLine_indent_loop(toks, i + 1, first_col + line_width(t), Append(acc, t))

JsonLine_indent(toks, first_col) == JsonLine_indent_loop(toks, 1, first_col, <<>>)

\* The loop of <JsonLine as Line>::render from token i on: col_ is the number
\* of characters of the tokens before, l the characters pushed so far.
RECURSIVE JsonLine_render_loop(_, _, _, _, _, _)
JsonLine_render_loop(ts, i, col_, start_col, width, l) ==
    IF i > Len(ts) THEN l
    ELSE LET c == Len(ts[i].l)
             l1 == IF start_col < col_ + c
                   THEN l \o render(ts[i], saturating_sub(start_col, col_),
                                    start_col + width - col_)
                   ELSE l
         IN IF col_ + c >= start_col + width THEN l1
            ELSE JsonLine_render_loop(ts, i + 1, col_ + c, start_col, width, l1)

\* <JsonLine as Line>::render
JsonLine_render(ts, start_col, width) ==
    JsonLine_render_loop(ts, 1, 0, start_col, width, <<>>)

----------------------------------------------------------------------------
(* The state machine of rendering: a text line and the JSON line that holds *)
(* the text, indented as View::new does (view.rs:75-78) and rendered from a *)
(* start column over a width (view.rs:334, 346)                             *)

RECURSIVE RenderTextsOfLen(_)
RenderTextsOfLen(n) ==
    IF n = 0 THEN {<<>>}
    ELSE {Append(t, ch) : t \in RenderTextsOfLen(n - 1), ch \in {"a", TAB}}

RenderTexts == UNION {RenderTextsOfLen(n) : n \in 0..MaxRenderLen}

InitRender ==
    /\ ascii_text \in RenderTexts
    /\ \E first_col \in 0..MaxFirstCol :
           ascii_line = Ok(indent(AsciiLine_try_new(ascii_text).val, first_col))
    /\ rendered = NoRender
    /\ ui = NoUi
    /\ drawn = NoDrawn
    /\ parsed = NoParse
    /\ json = JArr(<<JStr(ascii_text), JNum(<<"1">>)>>)
    /\ lines = parse_json(json)
    /\ ix = index_start
    /\ view = View_new(<<6, 1>>, <<>>)
    /\ overflow_checks = FALSE
    /\ panicked = FALSE
    /\ last_op = NoOp

\* AsciiLine::render(start_col, width) on the text line
RenderAscii ==
    \E start_col \in 0..MaxStartCol, width \in 0..MaxWidth :
        /\ ascii_line.ok
        /\ rendered' = [of |-> "AsciiLine", line |-> ascii_line.val,
                        start_col |-> start_col,
                        width |-> width,
                        out |-> render(ascii_line.val, start_col, width)]
        /\ UNCHANGED <<view, overflow_checks, panicked, last_op, json_vars,
                       ascii_text, ascii_line, ui_vars>>

\* the second line of the document [text, 1], the one that holds the text,
\* indented like the text line
json_line == JsonLine_indent(lines.val[2], ascii_line.val.first_col)

\* JsonLine::render(start_col, width) on the line of the document that holds
\* the text, indented like the text line
RenderJson ==
    \E start_col \in 0..MaxStartCol, width \in 0..MaxWidth :
        /\ lines.ok
        /\ rendered' = [of |-> "JsonLine", line |-> json_line,
                        start_col |-> start_col, width |-> width,
                        out |-> JsonLine_render(json_line, start_col, width)]
        /\ UNCHANGED <<view, overflow_checks, panicked, last_op, json_vars,
                       ascii_text, ascii_line, ui_vars>>

NextRender ==
    \/ RenderAscii
    \/ RenderJson

SpecRender == InitRender /\ [][NextRender]_vars

----------------------------------------------------------------------------
(* The state machine of the commands: parse_goto on a text *)

GotoChars == {"0", "2", ":", "+", "x"}

RECURSIVE GotoTextsOfLen(_)
GotoTextsOfLen(n) ==
    IF n = 0 THEN {<<>>}
    ELSE {Append(t, ch) : t \in GotoTextsOfLen(n - 1), ch \in GotoChars}

\* numerals at and above usize::MAX
LongNumerals ==
    {to_string(usize_MAX),
     to_string(usize_MAX \div 10) \o <<Digit((usize_MAX % 10) + 1)>>,
     to_string(usize_MAX) \o <<"0">>}

GotoTexts ==
    UNION {GotoTextsOfLen(n) : n \in 0..MaxGotoLen}
    \cup LongNumerals
    \cup {<<":">> \o t : t \in LongNumerals}

InitGoto ==
    /\ parsed \in {[input |-> t, done |-> FALSE, out |-> NoGoto] : t \in GotoTexts}
    /\ ui = NoUi
    /\ drawn = NoDrawn
    /\ json = JNull
    /\ lines = parse_json(json)
    /\ ix = index_start
    /\ view = View_new(<<6, 1>>, <<>>)
    /\ overflow_checks = FALSE
    /\ panicked = FALSE
    /\ last_op = NoOp
    /\ ascii_text = <<>>
    /\ ascii_line = AsciiLine_try_new(ascii_text)
    /\ rendered = NoRender

\* parse_goto(input)
ParseGoto ==
    /\ ~parsed.done
    /\ parsed' = [parsed EXCEPT !.done = TRUE, !.out = parse_goto(parsed.input)]
    /\ UNCHANGED <<view, overflow_checks, panicked, last_op, json_vars, text_vars,
                   ui, drawn>>

NextGoto == ParseGoto

SpecGoto == InitGoto /\ [][NextGoto]_vars

----------------------------------------------------------------------------
(* The state machine of the Ui: the loop of Ui::run, one key at a time, on  *)
(* the document ["#/"]                                                      *)

UiDoc == JArr(<<JStr(<<"#", "/">>)>>)

\* terminals (width, height): the view is 2 rows shorter (main.rs:213-214)
UiSizes == {<<24, 5>>}

\* the characters typed on the status line
KeyChars == {"2", ":", "/", "q", "h"}

\* the keys pressed while the view has the focus; the letters that do what
\* the arrows do are left out
ViewKeys ==
    {Key("Right"), Key("Left"), Key("Up"), Key("Down"), Key("PageUp"),
     Key("PageDown"), Key("Esc"), Char("0"), Char("$"), Char(":"), Char("#"),
     Char(ENTER), Char("q")}

\* the keys pressed while the status line has the focus: the text is typed
\* and deleted at its end
StatusLineKeys ==
    {Key("Esc"), Key("Backspace"), Key("PageUp"), Char(ENTER)}
    \cup {Char(c) : c \in KeyChars}

\* the keys pressed while the help has the focus
HelpKeys == {Key("Esc"), Key("Down"), Char("q")}

InitUi ==
    /\ json = UiDoc
    /\ lines = parse_json(json)
    /\ ix = index_loop(lines.val, index_start)
    /\ \E size \in UiSizes :
           /\ ui = Ui_fields(Ui_new(lines.val, ix.refs, size))
           /\ view = Ui_new(lines.val, ix.refs, size).view
    /\ drawn = NoDrawn
    /\ parsed = NoParse
    /\ overflow_checks = FALSE
    /\ panicked = FALSE
    /\ last_op = NoOp
    /\ ascii_text = <<>>
    /\ ascii_line = AsciiLine_try_new(ascii_text)
    /\ rendered = NoRender

\* the Ui of the state
Ui_state ==
    [focus |-> ui.focus, status_line |-> ui.status_line, exit |-> ui.exit,
     view |-> view, lines |-> lines.val, index |-> ix.refs]

\* the commands saved to the two histories
history_len(s) == Len(s.history[1]) + Len(s.history[2])

\* One turn of the loop of Ui::run, for the key ev.  The text on the status
\* line is kept within the bounds of the model, and a command is executed
\* only while the history is empty: a session is followed up to its first
\* executed command and through the keys after it that execute nothing.
\* last_op tells whether the key was Enter.
KeyEventWithin(ev, max_len, max_history) ==
    \E k \in {Ui_key(Ui_state, ev)} :
        /\ ui.exit = "no"
        /\ chars_count(k.ui.status_line.buffer) <= max_len + 1
        /\ history_len(k.ui.status_line) > history_len(ui.status_line)
               => history_len(ui.status_line) < max_history
        /\ ui' = Ui_fields(k.ui)
        /\ view' = k.ui.view
        /\ drawn' = k.drawn
        /\ panicked' = (k.ui.exit = "panic")
        /\ last_op' = Op(IF ev = Char(ENTER) THEN "Enter" ELSE "key")
        /\ UNCHANGED <<overflow_checks, json_vars, text_vars, parsed>>

\* a key event of SpecUi: one command or query is executed
KeyEvent(ev) == KeyEventWithin(ev, MaxCmdLen, 1)

\* a key while the view has the focus: Ui::update_view
ViewKey == \E ev \in ViewKeys : ui.focus = "View" /\ KeyEvent(ev)

\* a key while the status line has the focus: Ui::update_status_line
StatusLineKey == \E ev \in StatusLineKeys : ui.focus = "StatusLine" /\ KeyEvent(ev)

\* a key while the help has the focus: Ui::update_help_view
HelpKey == \E ev \in HelpKeys : ui.focus = "Help" /\ KeyEvent(ev)

NextUi ==
    \/ ViewKey
    \/ StatusLineKey
    \/ HelpKey

SpecUi == InitUi /\ [][NextUi]_vars

----------------------------------------------------------------------------
(* Queries: main() on documents with and without an empty key, and the keys
   that type and submit a query *)

\* {"": 1}: the path of the member is "#/"
DocEmptyKey == JObj(<< <<>> >>, <<JNum(<<"1">>)>>)

QueryDocs == {UiDoc, DocEmptyKey}

QueryViewKeys == {Char("#"), Key("Down")}

QueryLineKeys == {Char("/"), Char("0"), Char(ENTER)}

\* main(): parse_json, index and Ui::new
InitQuery ==
    /\ json \in QueryDocs
    /\ lines = parse_json(json)
    /\ ix = index_loop(lines.val, index_start)
    /\ \E size \in UiSizes :
           /\ ui = Ui_fields(Ui_new(lines.val, ix.refs, size))
           /\ view = Ui_new(lines.val, ix.refs, size).view
    /\ drawn = NoDrawn
    /\ parsed = NoParse
    /\ overflow_checks = FALSE
    /\ panicked = FALSE
    /\ last_op = NoOp
    /\ ascii_text = <<>>
    /\ ascii_line = AsciiLine_try_new(ascii_text)
    /\ rendered = NoRender

\* a key while the view has the focus: Ui::update_view
QueryViewKey ==
    \E ev \in QueryViewKeys : ui.focus = "View" /\ KeyEventWithin(ev, MaxQueryLen, 2)

\* a key while the status line has the focus: Ui::update_status_line
QueryLineKey ==
    \E ev \in QueryLineKeys :
        ui.focus = "StatusLine" /\ KeyEventWithin(ev, MaxQueryLen, 2)

NextQuery ==
    \/ QueryViewKey
    \/ QueryLineKey

SpecQuery == InitQuery /\ [][NextQuery]_vars

----------------------------------------------------------------------------
(* Editing the status line: main() on UiDoc, and the keys that open the
   status line, move its cursor, delete, walk its history and submit it *)

LineViewKeys == {Char(":"), Char("#"), Key("Down"), Char("$"), Char(ENTER)}

LineKeys ==
    {Key("Left"), Key("Right"), Key("Up"), Key("Down"), Key("Backspace"),
     Key("Esc"), Char("2"), Char(ENTER)}

\* a key while the view has the focus: Ui::update_view
LineViewKey ==
    \E ev \in LineViewKeys : ui.focus = "View" /\ KeyEventWithin(ev, MaxLineLen, 2)

\* a key while the status line has the focus: Ui::update_status_line
LineKey ==
    \E ev \in LineKeys : ui.focus = "StatusLine" /\ KeyEventWithin(ev, MaxLineLen, 2)

NextLine ==
    \/ LineViewKey
    \/ LineKey

SpecLine == InitUi /\ [][NextLine]_vars

----------------------------------------------------------------------------
(* The state machine of editing: insert, remove and clear on an             *)
(* AsciiLine<String> that starts empty at some first column                 *)
(* (ascii_line.rs:41-67); ascii_text is the text the same edits give        *)

EditChars == {"a", TAB}

InitEdit ==
    /\ ascii_text = <<>>
    /\ \E first_col \in 0..MaxFirstCol :
           ascii_line = Ok(indent(AsciiLine_new(<<>>), first_col))
    /\ rendered = NoRender
    /\ ui = NoUi
    /\ drawn = NoDrawn
    /\ parsed = NoParse
    /\ json = JNull
    /\ lines = parse_json(json)
    /\ ix = index_start
    /\ view = View_new(<<6, 1>>, <<>>)
    /\ overflow_checks = FALSE
    /\ panicked = FALSE
    /\ last_op = NoOp

\* AsciiLine::insert(at, c), for at <= chars_count()
EditInsert ==
    \E at \in 0..Len(ascii_text), c \in EditChars :
        /\ Len(ascii_text) < MaxEditLen
        /\ ascii_line' = Ok(AsciiLine_insert(ascii_line.val, at, c))
        /\ ascii_text' = SubSeq(ascii_text, 1, at) \o <<c>>
                             \o SubSeq(ascii_text, at + 1, Len(ascii_text))
        /\ last_op' = [op |-> "insert", r |-> 0, c |-> at]
        /\ UNCHANGED <<view, overflow_checks, panicked, json_vars, rendered, ui_vars>>

\* AsciiLine::remove(at), for at < chars_count()
EditRemove ==
    \E at \in 0..(Len(ascii_text) - 1) :
        /\ ascii_line' = Ok(AsciiLine_remove(ascii_line.val, at))
        /\ ascii_text' = SubSeq(ascii_text, 1, at)
                             \o SubSeq(ascii_text, at + 2, Len(ascii_text))
        /\ last_op' = [op |-> "remove", r |-> 0, c |-> at]
        /\ UNCHANGED <<view, overflow_checks, panicked, json_vars, rendered, ui_vars>>

\* AsciiLine::clear()
EditClear ==
    /\ ascii_line' = Ok(AsciiLine_clear(ascii_line.val))
    /\ ascii_text' = <<>>
    /\ last_op' = Op("clear")
    /\ UNCHANGED <<view, overflow_checks, panicked, json_vars, rendered, ui_vars>>

NextEdit ==
    \/ EditInsert
    \/ EditRemove
    \/ EditClear

SpecEdit == InitEdit /\ [][NextEdit]_vars

----------------------------------------------------------------------------

(* Properties of the View *)

NonEmpty == Len(view.lines) > 0

\* chars_count() - 1 of the line under the cursor, 0 on an empty line
last_char_ix(v) == saturating_sub(chars_count(row_of(v)), 1)

\* sum of char_width(i) of a line for i in [from, to)
RECURSIVE sum_widths(_, _, _)
sum_widths(row, from, to) ==
    IF from >= to THEN 0
    ELSE char_width(row, from) + sum_widths(row, from + 1, to)

Vertical == MoveUp \/ MoveDown \/ PageUp \/ PageDown
Horizontal == MoveRight \/ MoveLeft

\* C4: after a goto(r, c) on a non-empty document the current row is
\* min(r, len - 1) and col() is min(c, chars_count(that row) - 1), 0 on an
\* empty line.
C4_GotoClamps ==
    (NonEmpty /\ last_op.op = "goto") =>
        /\ current_row(view) = Min(last_op.r, Len(view.lines) - 1)
        /\ col(view) = Min(last_op.c, last_char_ix(view))

\* C4 witness: a goto whose row and column both lie past the document
C4_Witness ==
    /\ NonEmpty /\ last_op.op = "goto"
    /\ last_op.r > Len(view.lines) - 1
    /\ last_op.c > last_char_ix(view)
    /\ chars_count(row_of(view)) > 0

\* C5: on a non-empty document cursor_row < height and
\* frame_start_row + cursor_row < number of lines, in every reachable state.
C5_VerticalBounds ==
    NonEmpty =>
        /\ view.cursor_row < view.height
        /\ view.frame_start_row + view.cursor_row < Len(view.lines)

\* C6: on a non-empty document line_char_ix < chars_count(current line), or
\* line_char_ix = 0 when the current line is empty.
C6_HorizontalIndex ==
    NonEmpty =>
        IF chars_count(row_of(view)) = 0
        THEN view.line_char_ix = 0
        ELSE view.line_char_ix < chars_count(row_of(view))

\* C6 witness: a vertical move landed on a line shorter than the remembered
\* column and the index was capped to its last character
C6_Witness ==
    /\ NonEmpty /\ last_op.op \in {"move_up", "move_down", "page_up", "page_down"}
    /\ chars_count(row_of(view)) > 0
    /\ view.max_line_char_ix >= chars_count(row_of(view))
    /\ view.line_char_ix = chars_count(row_of(view)) - 1

\* C7 as stated: cursor_col is the sum of char_width(i) of the current line for
\* i in [frame_start_char_ix, line_char_ix), the cursor character excluded.
C7_CursorColExclusive ==
    NonEmpty =>
        view.cursor_col =
            sum_widths(row_of(view), view.frame_start_char_ix, view.line_char_ix)

\* C7 amended: cursor_col is the sum of char_width(i) for i in
\* [frame_start_char_ix, line_char_ix] minus 1: the last screen column of the
\* cursor character (char_width of index 0 of an empty line being 1).
C7_CursorColLastColumn ==
    NonEmpty =>
        view.cursor_col =
            sum_widths(row_of(view), view.frame_start_char_ix, view.line_char_ix + 1) - 1

\* C7 witness: the cursor is on a tab wider than one column
C7_Witness ==
    /\ NonEmpty
    /\ char_width(row_of(view), view.line_char_ix) > 1
    /\ view.cursor_col > view.line_char_ix

\* C8: move_up, move_down, page_up and page_down never change
\* max_line_char_ix and leave line_char_ix = min(max_line_char_ix,
\* chars_count(current line) - 1), 0 on an empty line.
C8_StickyColumn ==
    [][(NonEmpty /\ Vertical) =>
          /\ view'.max_line_char_ix = view.max_line_char_ix
          /\ view'.line_char_ix = Min(view'.max_line_char_ix, last_char_ix(view'))]_vars

\* C8 witness: a vertical move onto an empty line kept a remembered column > 0
C8_Witness ==
    /\ NonEmpty /\ last_op.op \in {"move_up", "move_down", "page_up", "page_down"}
    /\ chars_count(row_of(view)) = 0
    /\ view.max_line_char_ix > 0
    /\ view.line_char_ix = 0

\* C9 as stated: after every move_right or move_left on a non-empty document,
\* clamped calls included, max_line_char_ix = line_char_ix.
C9_HorizontalAbandonsSticky ==
    (NonEmpty /\ last_op.op \in {"move_right", "move_left"}) =>
        view.max_line_char_ix = view.line_char_ix

\* C9 amended: a move_right or move_left that shifts line_char_ix sets
\* max_line_char_ix = line_char_ix; a call clamped at the last or first
\* character returns early and leaves the whole view, max_line_char_ix
\* included, as it was.
C9_ShiftAbandonsSticky ==
    [][(NonEmpty /\ Horizontal) =>
          IF view'.line_char_ix # view.line_char_ix
          THEN view'.max_line_char_ix = view'.line_char_ix
          ELSE view' = view]_vars

\* C9 witness: a move_right that shifted the cursor
C9_Witness ==
    /\ NonEmpty /\ last_op.op = "move_right"
    /\ view.line_char_ix > 0
    /\ view.max_line_char_ix = view.line_char_ix

\* C10: over zero lines every navigation call completes and leaves every field
\* of the view unchanged, and current_line() is None.
C10_EmptyDocument ==
    [][(Len(view.lines) = 0 /\ Next) =>
          /\ view' = view
          /\ ~panicked'
          /\ current_line(view') = <<>>]_vars

\* C10 witness: a goto was called on the empty document
C10_Witness ==
    /\ Len(view.lines) = 0
    /\ last_op.op = "goto" /\ last_op.r > 0 /\ last_op.c > 0

----------------------------------------------------------------------------
(* Properties of the path index *)

\* index() has returned its map
IndexReturned == lines.ok /\ index_done(lines.val, ix) /\ ~panicked

\* index() is over: it has returned its map or it has panicked
IndexOver == lines.ok /\ (index_done(lines.val, ix) \/ panicked)

IsContainer(v) == v.t \in {"arr", "obj"}

\* number of lines parse_json_lines prints a value on
RECURSIVE line_count(_)
RECURSIVE line_count_sum(_, _)
line_count_sum(kids, n) ==
    IF n = 0 THEN 0 ELSE line_count_sum(kids, n - 1) + line_count(kids[n])
line_count(v) ==
    IF Len(v.kids) = 0 THEN 1 ELSE 2 + line_count_sum(v.kids, Len(v.kids))

\* the kids of a value in the order they are printed
printed_order(v) ==
    IF v.t = "obj" THEN sort_by_key(v.keys, Len(v.keys))
    ELSE [i \in 1..Len(v.kids) |-> i]

\* rows taken by the first n printed kids of v
RECURSIVE rows_before(_, _, _)
rows_before(v, order, n) ==
    IF n = 0 THEN 0
    ELSE rows_before(v, order, n - 1) + line_count(v.kids[order[n]])

\* Every value of the document below and including v, as
\* [path, row, col, v]: path is the canonical path ('#' followed by '/' + key
\* or array index for each step from the root), (row, col) the position of the
\* value's own first token when v is printed from (row, col) at indent ind.
RECURSIVE located(_, _, _, _, _)
located(v, path, row, col_, ind) ==
    LET order == printed_order(v)
        seg(n) == IF v.t = "obj" THEN v.keys[order[n]] ELSE to_string(n - 1)
        kid_col(n) == IF v.t = "obj"
                      THEN ind + 4 + (Len(v.keys[order[n]]) + 2) + 1 + 1
                      ELSE ind + 4
    IN {[path |-> path, row |-> row, col |-> col_, v |-> v]}
       \cup UNION { located(v.kids[order[n]],
                            path \o <<"/">> \o seg(n),
                            row + 1 + rows_before(v, order, n - 1),
                            kid_col(n),
                            ind + 4) : n \in 1..Len(order) }

AllLocated == located(json, <<"#">>, 0, 0, 0)

\* every object key of the document is non-empty and holds no '/'
RECURSIVE KeysPlain(_)
KeysPlain(v) ==
    /\ \A i \in 1..Len(v.keys) :
           Len(v.keys[i]) > 0 /\ \A j \in 1..Len(v.keys[i]) : v.keys[i][j] # "/"
    /\ \A i \in 1..Len(v.kids) : KeysPlain(v.kids[i])

\* number of tokens of the given tags in the token stream
RECURSIVE count_tags_line(_, _)
count_tags_line(toks, tags) ==
    IF toks = <<>> THEN 0
    ELSE (IF Head(toks).tag \in tags THEN 1 ELSE 0) + count_tags_line(Tail(toks), tags)
RECURSIVE count_tags(_, _)
count_tags(ls, tags) ==
    IF ls = <<>> THEN 0
    ELSE count_tags_line(Head(ls), tags) + count_tags(Tail(ls), tags)

\* C1: for a document whose keys are non-empty and hold no '/', the map
\* returned by index() sends the canonical path of every value to the row and
\* column of the value's own first token.
C1_PathIndexCorrect ==
    (IndexReturned /\ KeysPlain(json)) =>
        \A e \in AllLocated :
            /\ e.path \in DOMAIN ix.refs
            /\ ix.refs[e.path] = <<e.row, e.col>>

\* C2: the map returned by index() has as many entries as the token stream has
\* ObjectStart/ArrayStart and Null/Bool/Number/String/Ref tokens.
C2_IndexComplete ==
    IndexReturned =>
        Cardinality(DOMAIN ix.refs) = count_tags(lines.val, StartTags \cup ValueTags)

LocatedMatchesLines ==
    lines.ok =>
        \A e \in AllLocated :
            \E t \in 1..Len(lines.val[e.row + 1]) :
                LET toks == lines.val[e.row + 1]
                    before == SubSeq(toks, 1, t - 1)
                IN /\ Len(join([i \in 1..Len(before) |-> before[i].text])) = e.col
                   /\ toks[t].tag =
                        CASE e.v.t = "arr" -> "ArrayStart"
                          [] e.v.t = "obj" -> "ObjectStart"
                          [] e.v.t = "null" -> "Null"
                          [] e.v.t = "bool" -> "Bool"
                          [] e.v.t = "num" -> "Number"
                          [] e.v.t = "str" ->
                                IF starts_with_ref(e.v.text) THEN "Ref" ELSE "String"

----------------------------------------------------------------------------
(* Properties of the View: failures and scrolling *)

\* C11: on a non-empty document no navigation operation fails: none panics
\* on an arithmetic underflow or overflow or on a line index out of bounds.
C11_NavigationNeverFails == NonEmpty => ~panicked

\* C12: in every reachable state of a non-empty document, running
\* center_horizontally again leaves frame_start_char_ix and cursor_col as
\* they are.
C12_HorizontalIdempotence ==
    NonEmpty =>
        /\ center_horizontally(view).frame_start_char_ix = view.frame_start_char_ix
        /\ center_horizontally(view).cursor_col = view.cursor_col

\* C12 witness: the frame is scrolled horizontally and the cursor is to the
\* right of its first character
C12_Witness ==
    /\ NonEmpty
    /\ view.frame_start_char_ix > 0
    /\ view.line_char_ix > view.frame_start_char_ix
    /\ last_op.op \in {"move_right", "move_left", "move_down", "goto"}

----------------------------------------------------------------------------
(* Properties of the tokenizer *)

\* parse_json has returned the lines of the document and index() has not
\* begun to walk them
Parsed == lines.ok /\ ix = index_start

\* a sequence in reverse order
Reverse(s) == [i \in 1..Len(s) |-> s[Len(s) + 1 - i]]

\* the document with the members of every object given in the opposite order
RECURSIVE mirror(_)
mirror(v) ==
    LET kids == [i \in 1..Len(v.kids) |-> mirror(v.kids[i])]
    IN IF v.t = "obj"
       THEN [v EXCEPT !.keys = Reverse(v.keys), !.kids = Reverse(kids)]
       ELSE [v EXCEPT !.kids = kids]

\* the value and every value nested in it
RECURSIVE SubValues(_)
SubValues(v) == {v} \cup UNION {SubValues(v.kids[i]) : i \in 1..Len(v.kids)}

\* the texts of the ObjectKey tokens of the direct members of a container
\* printed at indent 0, in the order of their lines
RECURSIVE member_keys(_)
member_keys(ls) ==
    IF ls = <<>> THEN <<>>
    ELSE LET l == Head(ls)
         IN (IF Len(l) >= 2 /\ l[1].tag = "Whitespace" /\ Len(l[1].text) = 4
                /\ l[2].tag = "ObjectKey"
             THEN <<l[2].text>> ELSE <<>>) \o member_keys(Tail(ls))

\* C13: parse_json prints the members of every object in ascending
\* lexicographic order of their keys, whatever the order they are given in:
\* the document with the members of its objects in the opposite order gives
\* the same lines.
C13_ObjectOrdering ==
    Parsed =>
        /\ parse_json(mirror(json)) = lines
        /\ \A o \in SubValues(json) :
               o.t = "obj" =>
                   LET ks == member_keys(parse_json(o).val)
                   IN /\ Len(ks) = Len(o.keys)
                      /\ \A i \in 1..(Len(ks) - 1) : str_lt(ks[i], ks[i + 1])

\* C13 witness: a document with an object whose two members are given in
\* descending key order, one of them a container
C13_Witness ==
    /\ Parsed
    /\ \E o \in SubValues(json) :
           /\ o.t = "obj" /\ Len(o.keys) = 2
           /\ str_lt(o.keys[2], o.keys[1])
           /\ \E i \in 1..2 : Len(o.kids[i].kids) > 0

\* number of Comma tokens the claim allows in the lines of a value: one per
\* child but the final one, in every non-empty container
RECURSIVE expected_commas(_)
RECURSIVE expected_commas_sum(_, _)
expected_commas_sum(kids, n) ==
    IF n = 0 THEN 0
    ELSE expected_commas_sum(kids, n - 1) + expected_commas(kids[n])
expected_commas(v) ==
    IF Len(v.kids) = 0 THEN 0
    ELSE (Len(v.kids) - 1) + expected_commas_sum(v.kids, Len(v.kids))

\* C14: in the lines of parse_json, for every non-empty array or object the
\* last line of every child but the final one ends with a Comma token, the
\* last line of the final child does not, and there is no other Comma token.
C14_CommaPlacement ==
    Parsed =>
        /\ \A o \in SubValues(json) :
               LET ls == parse_json(o).val
                   order == printed_order(o)
               IN \A n \in 1..Len(order) :
                      LET last == ls[1 + rows_before(o, order, n)]
                      IN (last[Len(last)].tag = "Comma") <=> (n < Len(order))
        /\ count_tags(lines.val, {"Comma"}) = expected_commas(json)
        /\ \A r \in 1..Len(lines.val) :
               \A t \in 1..Len(lines.val[r]) :
                   lines.val[r][t].tag = "Comma" => t = Len(lines.val[r])

\* C14 witness: a container whose first child is a non-empty container, so
\* that the comma goes after the child's closing line
C14_Witness ==
    /\ Parsed
    /\ Len(json.kids) = 2
    /\ \E i \in 1..2 : Len(json.kids[i].kids) > 0 /\ printed_order(json)[1] = i
    /\ count_tags(lines.val, {"Comma"}) = 1

\* the tags of a line
line_tags(toks) == [i \in 1..Len(toks) |-> toks[i].tag]

\* a line without its Whitespace tokens and without a final Comma
RECURSIVE line_core(_)
line_core(toks) ==
    IF toks = <<>> THEN <<>>
    ELSE IF Head(toks).tag = "Whitespace" THEN line_core(Tail(toks))
    ELSE IF Head(toks).tag = "Comma" /\ Len(toks) = 1 THEN <<>>
    ELSE <<Head(toks).tag>> \o line_core(Tail(toks))

\* number of spaces a line starts with
RECURSIVE leading_spaces(_)
leading_spaces(text) ==
    IF text # <<>> /\ Head(text) = " " THEN 1 + leading_spaces(Tail(text)) ELSE 0

value_tag(v) ==
    CASE v.t = "null" -> "Null" [] v.t = "bool" -> "Bool" [] v.t = "num" -> "Number"
      [] v.t = "str" -> IF starts_with_ref(v.text) THEN "Ref" ELSE "String"
      [] v.t = "arr" -> "ArrayStart" [] v.t = "obj" -> "ObjectStart"

end_tag(v) == IF v.t = "arr" THEN "ArrayEnd" ELSE "ObjectEnd"

\* The lines the structure of a value asks for, one record per line: d is the
\* nesting depth of the value the line belongs to, core the tags of the line
\* without whitespace and final comma. keyed says that the value is the member
\* of an object.
RECURSIVE line_shape(_, _, _)
RECURSIVE line_shape_kids(_, _, _, _)
line_shape_kids(v, order, n, d) ==
    IF n = 0 THEN <<>>
    ELSE line_shape_kids(v, order, n - 1, d)
         \o line_shape(v.kids[order[n]], d, v.t = "obj")
line_shape(v, d, keyed) ==
    LET key == IF keyed THEN <<"ObjectKey", "Colon">> ELSE <<>>
    IN IF Len(v.kids) = 0
       THEN << [d |-> d,
                core |-> key \o (IF IsContainer(v)
                                 THEN <<value_tag(v), end_tag(v)>>
                                 ELSE <<value_tag(v)>>)] >>
       ELSE << [d |-> d, core |-> key \o <<value_tag(v)>>] >>
            \o line_shape_kids(v, printed_order(v), Len(v.kids), d + 1)
            \o << [d |-> d, core |-> <<end_tag(v)>>] >>

\* C15: parse_json gives 1 line for a scalar and for an empty array or object
\* (start and end token together), and for a non-empty container 2 lines
\* more than its children have together: an opening line, the lines of the
\* children in order, every line starting with 4 spaces per nesting depth,
\* and a closing line of the container's indent and the closing token.
C15_LineStructure ==
    Parsed =>
        /\ \A o \in SubValues(json) :
               LET ls == parse_json(o).val
                   kid_lines(i) == Len(parse_json(o.kids[i]).val)
                   RECURSIVE total(_)
                   total(n) == IF n = 0 THEN 0 ELSE total(n - 1) + kid_lines(n)
               IN Len(ls) = IF Len(o.kids) = 0 THEN 1 ELSE 2 + total(Len(o.kids))
        /\ LET shape == line_shape(json, 0, FALSE)
           IN /\ Len(lines.val) = Len(shape)
              /\ \A r \in 1..Len(shape) :
                     /\ leading_spaces(line_text(lines.val[r])) = 4 * shape[r].d
                     /\ line_core(lines.val[r]) = shape[r].core

\* C15 witness: a document of three nesting levels with an empty container
C15_Witness ==
    /\ Parsed
    /\ \E i \in 1..Len(json.kids) :
           \E j \in 1..Len(json.kids[i].kids) :
               /\ IsContainer(json.kids[i].kids[j])
               /\ Len(json.kids[i].kids[j].kids) = 0
    /\ Len(lines.val) >= 5

\* a line without a final Comma
strip_comma(toks) ==
    IF toks # <<>> /\ toks[Len(toks)].tag = "Comma"
    THEN SubSeq(toks, 1, Len(toks) - 1) ELSE toks

\* C16: for a non-empty container at the root the opening line is the start
\* token alone and the closing line is the end token alone, with no
\* Whitespace token; a container nested at indent n > 0 closes with a
\* Whitespace token of n spaces and the end token (before the comma, if it is
\* not the final child).
C16_ContainerLineTokens ==
    (lines.ok /\ Len(json.kids) > 0) =>
        LET shape == line_shape(json, 0, FALSE)
            n == Len(lines.val)
        IN /\ line_tags(lines.val[1]) = <<value_tag(json)>>
           /\ line_tags(lines.val[n]) = <<end_tag(json)>>
           /\ \A r \in 2..(n - 1) :
                  (shape[r].d > 0 /\ shape[r].core \in {<<"ArrayEnd">>, <<"ObjectEnd">>}) =>
                      LET l == strip_comma(lines.val[r])
                      IN /\ line_tags(l) = <<"Whitespace">> \o shape[r].core
                         /\ Len(l[1].text) = 4 * shape[r].d

----------------------------------------------------------------------------
(* Properties of strings, keys and text lines *)

\* the strings of a document in the order they are printed, keys included:
\* key says whether the text is an object key
RECURSIVE doc_strings(_)
RECURSIVE doc_strings_kids(_, _, _)
doc_strings_kids(v, order, n) ==
    IF n = 0 THEN <<>>
    ELSE doc_strings_kids(v, order, n - 1)
         \o (IF v.t = "obj" THEN << [key |-> TRUE, s |-> v.keys[order[n]]] >> ELSE <<>>)
         \o doc_strings(v.kids[order[n]])
doc_strings(v) ==
    IF v.t = "str" THEN << [key |-> FALSE, s |-> v.text] >>
    ELSE doc_strings_kids(v, printed_order(v), Len(v.kids))

\* the String, Ref and ObjectKey tokens of the lines, in order
RECURSIVE string_tokens(_)
string_tokens(ls) ==
    IF ls = <<>> THEN <<>>
    ELSE SelectSeq(Head(ls), LAMBDA t : t.tag \in {"String", "Ref", "ObjectKey"})
         \o string_tokens(Tail(ls))

\* the text starts with the two characters #/
HasRefPrefix(s) == Len(s) >= 2 /\ SubSeq(s, 1, 2) = <<"#", "/">>

\* C17: in the lines of parse_json a string value is tagged Ref if its text
\* starts with "#/" and String if not, an object key is tagged ObjectKey
\* whatever it starts with, and the text of the token is the original text
\* between one pair of double quotes.
C17_RefTagging ==
    (last_op.op = "parse_json" /\ lines.ok) =>
        LET toks == string_tokens(lines.val)
            strs == doc_strings(json)
        IN /\ Len(toks) = Len(strs)
           /\ \A i \in 1..Len(strs) :
                  /\ toks[i].text = <<"\"">> \o strs[i].s \o <<"\"">>
                  /\ toks[i].tag = IF strs[i].key THEN "ObjectKey"
                                   ELSE IF HasRefPrefix(strs[i].s) THEN "Ref"
                                   ELSE "String"

\* C17 witness: a parsed document with a key that starts with "#/", a Ref
\* and a String
C17_Witness ==
    /\ last_op.op = "parse_json" /\ lines.ok
    /\ \E i \in 1..Len(doc_strings(json)) :
           doc_strings(json)[i].key /\ HasRefPrefix(doc_strings(json)[i].s)
    /\ count_tags(lines.val, {"Ref"}) = 1
    /\ count_tags(lines.val, {"String"}) = 0
    /\ Len(ascii_text) = MaxTextLen

\* the text holds a character that is not ASCII
HasNonAscii(s) == \E i \in 1..Len(s) : s[i] = NON_ASCII

\* C18: parse_json returns Err exactly when a string value or an object key
\* anywhere in the document holds a non-ASCII character; the Err carries the
\* text of such a string or key (between the double quotes it is given as a
\* token) and there are no lines; otherwise it returns Ok with all the lines
\* of the document.
C18_AllOrNothing ==
    last_op.op = "parse_json" =>
        LET strs == doc_strings(json)
            bad == {i \in 1..Len(strs) : HasNonAscii(strs[i].s)}
        IN /\ lines.ok <=> bad = {}
           /\ ~lines.ok =>
                  /\ lines.val = <<>>
                  /\ \E i \in bad : lines.err = <<"\"">> \o strs[i].s \o <<"\"">>
           /\ lines.ok =>
                  /\ lines.err = <<>>
                  /\ Len(lines.val) = Len(line_shape(json, 0, FALSE))

\* C18 witness: parse_json has failed on a nested key next to ASCII strings,
\* and it has succeeded on a document of several lines
C18_Witness ==
    /\ last_op.op = "parse_json"
    /\ ~lines.ok
    /\ json.t = "arr" /\ Len(json.kids) = 2 /\ json.kids[1].t = "obj"
    /\ HasNonAscii(json.kids[1].keys[1])

\* C19: AsciiLine::new(text) is an Err exactly when the text holds a
\* non-ASCII character, and the Err is the text as it was given; otherwise
\* it is a line whose line() is the text and whose chars_count() is the
\* length of the text.
C19_AsciiRejection ==
    /\ ascii_line.ok <=> ~HasNonAscii(ascii_text)
    /\ ~ascii_line.ok => ascii_line.err = ascii_text
    /\ ascii_line.ok =>
           /\ ascii_line.val.l = ascii_text
           /\ chars_count(ascii_line.val) = Len(ascii_text)

\* C19 witness: a text of ASCII characters around a non-ASCII one has been
\* rejected
C19_Witness ==
    /\ ~ascii_line.ok
    /\ Len(ascii_text) = 3
    /\ ascii_text[2] = NON_ASCII /\ ascii_text[1] = TAB /\ ascii_text[3] = "a"

\* C20: on a line that indent(first_col) has laid out, char_width(i) is 1 for
\* every character that is not a tab and, for a tab at index i,
\* 8 - ((first_col + the widths of the characters before i) mod 8): a tab is
\* 1 to 8 columns wide and the character after it starts on a column that is
\* a multiple of 8.
C20_TabWidth ==
    ascii_line.ok =>
        LET row == ascii_line.val
            before(i) == row.first_col + sum_widths(row, 0, i)
        IN \A i \in 0..(chars_count(row) - 1) :
               IF row.l[i + 1] = TAB
               THEN /\ char_width(row, i) = 8 - (before(i) % 8)
                    /\ char_width(row, i) \in 1..8
                    /\ before(i + 1) % 8 = 0
               ELSE char_width(row, i) = 1

\* C20 witness: indent(9) on a line of two tabs with a character in between
C20_Witness ==
    /\ ascii_line.ok
    /\ last_op.op = "indent" /\ last_op.c = 9
    /\ ascii_line.val.first_col = 9
    /\ ascii_text = <<TAB, "a", TAB>>
    /\ char_width(ascii_line.val, 0) = 7
    /\ char_width(ascii_line.val, 2) = 7

----------------------------------------------------------------------------
(* Properties of rendering *)

\* the characters of line row from index start_col on that the width has room
\* for: the longest run whose widths sum to at most width
longest_fit(row, start_col, width) ==
    LET n == IF start_col >= chars_count(row) THEN 0 ELSE chars_count(row) - start_col
        fits(k) == sum_widths(row, start_col, start_col + k) <= width
        k == CHOOSE j \in 0..n : fits(j) /\ (j = n \/ ~fits(j + 1))
    IN SubSeq(row.l, start_col + 1, start_col + k)

\* C21: AsciiLine::render(start_col, width) is the longest run of characters
\* from start_col on whose widths sum to at most width: it stops at the first
\* character that does not fit, and it is empty when start_col is past the
\* end of the line.
C21_AsciiRender ==
    rendered.of = "AsciiLine" =>
        /\ rendered.out = longest_fit(rendered.line, rendered.start_col, rendered.width)
        /\ rendered.start_col >= chars_count(rendered.line) => rendered.out = <<>>

\* C21 witness: a tab that does not fit has stopped the rendering before a
\* character that would fit
C21_Witness ==
    /\ rendered.of = "AsciiLine"
    /\ ascii_text = <<"a", TAB, "a">>
    /\ rendered.start_col = 0 /\ rendered.width = 3
    /\ char_width(rendered.line, 1) > 2
    /\ rendered.out = <<"a">>

\* a JSON line as the one text line of the same characters, indented alike
as_ascii_line(ts) ==
    indent(AsciiLine_new(join([i \in 1..Len(ts) |-> ts[i].l])),
           IF ts = <<>> THEN 0 ELSE ts[1].first_col)

\* C22: the characters JsonLine::render(start_col, width) gives are those
\* AsciiLine::render(start_col, width) gives on the characters of the tokens
\* put together; they take at most width columns, also when start_col is
\* inside a token.
C22_JsonRender ==
    rendered.of = "JsonLine" =>
        /\ rendered.out = render(as_ascii_line(rendered.line),
                                 rendered.start_col, rendered.width)
        /\ sum_widths(as_ascii_line(rendered.line), rendered.start_col,
                      rendered.start_col + Len(rendered.out)) <= rendered.width

----------------------------------------------------------------------------
(* Properties of the commands and of the Ui *)

\* the ':'-separated segments of the text parse_goto was called on
segments == split(parsed.input, ":")

\* a decimal numeral: one digit or more
is_numeral(s) == s # <<>> /\ \A i \in 1..Len(s) : is_digit(s[i])

\* the number a numeral denotes
RECURSIVE numeral_value(_)
numeral_value(s) ==
    IF s = <<>> THEN 0
    ELSE numeral_value(SubSeq(s, 1, Len(s) - 1)) * 10 + to_digit(s[Len(s)])

\* the 0-based number for a 1-based numeral: max(n - 1, 0)
zero_based(s) == IF numeral_value(s) = 0 THEN 0 ELSE numeral_value(s) - 1

RECURSIVE strip_zeros(_)
strip_zeros(s) == IF s # <<>> /\ s[1] = "0" THEN strip_zeros(Tail(s)) ELSE s

\* x <= y for numerals of the same length
RECURSIVE numeral_le(_, _)
numeral_le(x, y) ==
    IF x = <<>> THEN TRUE
    ELSE IF to_digit(x[1]) # to_digit(y[1]) THEN to_digit(x[1]) < to_digit(y[1])
    ELSE numeral_le(Tail(x), Tail(y))

\* the numeral denotes a number that is at most usize::MAX
fits_usize(s) ==
    \/ Len(strip_zeros(s)) < Len(to_string(usize_MAX))
    \/ /\ Len(strip_zeros(s)) = Len(to_string(usize_MAX))
       /\ numeral_le(strip_zeros(s), to_string(usize_MAX))

\* a text without the '+' it may start with
unsigned(s) == IF s # <<>> /\ s[1] = "+" THEN Tail(s) ELSE s

\* what usize's FromStr takes: a numeral of a number that fits, after an
\* optional '+'
is_usize(s) == is_numeral(unsigned(s)) /\ fits_usize(unsigned(s))

\* C23 as stated: for all decimal numerals R and C parse_goto("R:C") is
\* (max(R-1,0), max(C-1,0)), parse_goto("R") is (max(R-1,0), none) and
\* parse_goto(":C") is (none, max(C-1,0)); an input with a non-empty
\* non-numeric segment or with more than two segments yields None.
C23_ParseGoto ==
    parsed.done =>
        /\ (Len(segments) = 2 /\ is_numeral(segments[1]) /\ is_numeral(segments[2]))
               => /\ parsed.out.some
                  /\ parsed.out.r = Some(zero_based(segments[1]))
                  /\ parsed.out.c = Some(zero_based(segments[2]))
        /\ (Len(segments) = 1 /\ is_numeral(segments[1]))
               => /\ parsed.out.some
                  /\ parsed.out.r = Some(zero_based(segments[1]))
                  /\ parsed.out.c = None
        /\ (Len(segments) = 2 /\ segments[1] = <<>> /\ is_numeral(segments[2]))
               => /\ parsed.out.some
                  /\ parsed.out.r = None
                  /\ parsed.out.c = Some(zero_based(segments[2]))
        /\ (\/ Len(segments) > 2
            \/ \E i \in 1..Len(segments) :
                   segments[i] # <<>> /\ ~is_numeral(segments[i]))
               => ~parsed.out.some

\* C23, amended: the same for the numerals R and C of numbers that fit usize,
\* each after an optional '+'; an input with a non-empty segment that is not
\* such a numeral, or with more than two segments, yields None.
C23_ParseGotoUsize ==
    parsed.done =>
        /\ (Len(segments) = 2 /\ is_usize(segments[1]) /\ is_usize(segments[2]))
               => /\ parsed.out.some
                  /\ parsed.out.r = Some(zero_based(unsigned(segments[1])))
                  /\ parsed.out.c = Some(zero_based(unsigned(segments[2])))
        /\ (Len(segments) = 1 /\ is_usize(segments[1]))
               => /\ parsed.out.some
                  /\ parsed.out.r = Some(zero_based(unsigned(segments[1])))
                  /\ parsed.out.c = None
        /\ (Len(segments) = 2 /\ segments[1] = <<>> /\ is_usize(segments[2]))
               => /\ parsed.out.some
                  /\ parsed.out.r = None
                  /\ parsed.out.c = Some(zero_based(unsigned(segments[2])))
        /\ (\/ Len(segments) > 2
            \/ \E i \in 1..Len(segments) :
                   segments[i] # <<>> /\ ~is_usize(segments[i]))
               => ~parsed.out.some

\* "+2:0" has been parsed as (1, 0)
C23_Witness ==
    /\ parsed.done
    /\ parsed.input = <<"+", "2", ":", "0">>
    /\ parsed.out = SomeGoto(Some(1), Some(0))

\* the text on the status line, and what parse_goto makes of it
command_text == StatusLine_text(ui.status_line)

goto_text == parse_goto(command_text)

\* the last key was Enter on the status line in Command mode, and it executed
\* a goto
GotoExecuted ==
    /\ ui.focus = "StatusLine"
    /\ ui.status_line.mode = "Command"
    /\ last_op'.op = "Enter"
    /\ ui'.focus = "View"

\* C24: executing the goto command ':C' leaves the current row unchanged,
\* and executing the goto command 'R' leaves the character index of the
\* cursor unchanged, up to clamping to the length of the target line.
C24_OmittedKept ==
    [][GotoExecuted =>
           /\ ~goto_text.r.some => current_row(view') = current_row(view)
           /\ ~goto_text.c.some => col(view') = Min(col(view), last_char_ix(view'))]_vars

\* the query Enter looks up in Query mode
query_text == <<"#">> \o command_text

\* a query without the one '/' it may end with
trim_one(q) == IF q # <<>> /\ q[Len(q)] = "/" THEN SubSeq(q, 1, Len(q) - 1) ELSE q

\* the last key was Enter, pressed while the status line had the focus
EnterOnStatusLine == ui.focus = "StatusLine" /\ last_op'.op = "Enter"

\* the status line holds a goto text, not the command q or h, that
\* parse_goto rejects
RejectedGoto ==
    /\ ui.status_line.mode = "Command"
    /\ command_text \notin {<<"q">>, <<"h">>}
    /\ ~goto_text.some

\* the viewport is as it was, an error is drawn on the status line, the
\* program goes on and the status line keeps the focus
Untouched ==
    /\ view' = view
    /\ drawn'.some
    /\ ui'.exit = "no"
    /\ ui'.focus = "StatusLine"

\* C25 as stated: Enter on a goto text that parse_goto rejects, or on a query
\* whose path (less one trailing '/') is not in the index, changes no field
\* of the viewport, sets an error message on the status line, does not quit
\* and leaves the focus on the status line.
C25_MalformedUntouched ==
    [][(/\ EnterOnStatusLine
        /\ \/ RejectedGoto
           \/ /\ ui.status_line.mode = "Query"
              /\ trim_one(query_text) \notin DOMAIN ix.refs)
       => Untouched]_vars

\* C25, amended: the same for a query whose path less all the '/' it ends
\* with is not in the index.
C25_MissUntouched ==
    [][(/\ EnterOnStatusLine
        /\ \/ RejectedGoto
           \/ /\ ui.status_line.mode = "Query"
              /\ trim_end_matches(query_text, "/") \notin DOMAIN ix.refs)
       => Untouched]_vars

\* Enter has been pressed on a rejected goto text with the cursor away from
\* the first row, and the error is drawn
C25_Witness ==
    /\ last_op.op = "Enter"
    /\ ui.focus = "StatusLine"
    /\ drawn.some
    /\ drawn.val.format = INVALID_GOTO
    /\ current_row(view) > 0

\* Enter has been pressed on a query that is not in the index, and the error
\* is drawn
C25_WitnessQuery ==
    /\ last_op.op = "Enter"
    /\ ui.focus = "StatusLine"
    /\ drawn.some
    /\ drawn.val.format = NOT_FOUND

----------------------------------------------------------------------------
(* Properties of the frame of the View *)

\* the step is a call of the operation on a non-empty document that completes
Called(name) == NonEmpty /\ last_op'.op = name /\ ~panicked'

\* the step is a goto(last_op'.r, last_op'.c) that completes
GotoDone == Called("goto")

\* the row the goto of this step has clamped its target to
goto_row == Min(last_op'.r, Len(view.lines) - 1)

\* the row lies outside [frame_start_row, frame_start_row + height)
OutsideFrame(r) ==
    r < view.frame_start_row \/ r >= view.frame_start_row + view.height

\* C26 as stated: a goto whose clamped target row r lies outside
\* [frame_start_row, frame_start_row + height) sets frame_start_row to
\* max(r - height/2, 0); with r inside it frame_start_row is unchanged.
C26_GotoRecenters ==
    [][GotoDone =>
           view'.frame_start_row =
               IF OutsideFrame(goto_row)
               THEN saturating_sub(goto_row, view.height \div 2)
               ELSE view.frame_start_row]_vars

\* C26, amended: with r outside the frame a goto that completes sets
\* frame_start_row to max(r - (height/2 - 1), 0) when height >= 2 and to 0
\* when height = 1, where height/2 - 1 has wrapped; with r inside the frame
\* frame_start_row is unchanged.
C26_GotoRecentersAbove ==
    [][GotoDone =>
           view'.frame_start_row =
               IF ~OutsideFrame(goto_row) THEN view.frame_start_row
               ELSE IF view.height >= 2
               THEN saturating_sub(goto_row, view.height \div 2 - 1)
               ELSE 0]_vars

\* C26 witness: a goto has put the frame one row above a target row that is
\* at most the first row of a frame of four rows
C26_Witness ==
    /\ NonEmpty /\ last_op.op = "goto"
    /\ view.height = 4
    /\ view.frame_start_row > 0
    /\ view.frame_start_row + 1 = Min(last_op.r, Len(view.lines) - 1)
    /\ view.cursor_row = 1

\* C27: page_down moves the current row to min(current row + height, len - 1):
\* it adds height to frame_start_row and keeps cursor_row when
\* frame_start_row + height + cursor_row is inside the document, and
\* otherwise sets frame_start_row = len - 1 and cursor_row = 0.  page_up at
\* frame_start_row = 0 sets the current row to 0, and otherwise takes height
\* from frame_start_row, not below 0, and keeps cursor_row.
C27_Paging ==
    [][/\ Called("page_down") =>
              /\ current_row(view')
                     = Min(current_row(view) + view.height, Len(view.lines) - 1)
              /\ IF view.frame_start_row + view.height + view.cursor_row
                        < Len(view.lines)
                 THEN /\ view'.frame_start_row = view.frame_start_row + view.height
                      /\ view'.cursor_row = view.cursor_row
                 ELSE /\ view'.frame_start_row = Len(view.lines) - 1
                      /\ view'.cursor_row = 0
       /\ Called("page_up") =>
              IF view.frame_start_row = 0
              THEN current_row(view') = 0
              ELSE /\ view'.frame_start_row
                          = saturating_sub(view.frame_start_row, view.height)
                   /\ view'.cursor_row = view.cursor_row]_vars

\* C27 witness: a page_down has moved the frame by its height and kept the
\* cursor on its row of the screen
C27_Witness ==
    /\ NonEmpty /\ last_op.op = "page_down"
    /\ view.height = 2
    /\ view.frame_start_row = 2
    /\ view.cursor_row = 1

\* C28: move_down on any row but the last adds exactly 1 to the current row
\* and changes frame_start_row, by +1, only when cursor_row = height - 1
\* before the call; move_up on any row but the first takes exactly 1 from the
\* current row and changes frame_start_row, by -1, only when cursor_row = 0
\* before the call.
C28_LineScrolling ==
    [][/\ (Called("move_down") /\ current_row(view) < Len(view.lines) - 1) =>
              /\ current_row(view') = current_row(view) + 1
              /\ view'.frame_start_row # view.frame_start_row =>
                     /\ view.cursor_row = view.height - 1
                     /\ view'.frame_start_row = view.frame_start_row + 1
       /\ (Called("move_up") /\ current_row(view) > 0) =>
              /\ current_row(view') = current_row(view) - 1
              /\ view'.frame_start_row # view.frame_start_row =>
                     /\ view.cursor_row = 0
                     /\ view'.frame_start_row = view.frame_start_row - 1]_vars

\* the line holds no tab
TabFree(line) == \A i \in 1..chars_count(line) : line.l[i] # TAB

\* the columns left for the text: the width less the line numbers and " | "
text_width(v) == v.width - num_column_width(v)

\* C29: a navigation call that puts the cursor on character c of a tab-free
\* line, with s the frame start before it, leaves frame_start_char_ix at s
\* when s <= c < s + text_width, at c when c < s, and at c - text_width + 1
\* when c >= s + text_width.
C29_MinimalScroll ==
    [][(/\ NonEmpty /\ ~panicked' /\ last_op'.op # "new"
        /\ TabFree(row_of(view'))
        /\ text_width(view) >= 1)
       => view'.frame_start_char_ix =
              IF col(view') < view.frame_start_char_ix THEN col(view')
              ELSE IF col(view') < view.frame_start_char_ix + text_width(view)
              THEN view.frame_start_char_ix
              ELSE col(view') - text_width(view) + 1]_vars

\* C29 witness: a move_right on a line without tabs has pushed the frame one
\* character to the right
C29_Witness ==
    /\ NonEmpty /\ last_op.op = "move_right"
    /\ TabFree(row_of(view))
    /\ view.frame_start_char_ix > 0
    /\ col(view) = view.frame_start_char_ix + text_width(view) - 1
    /\ col(view) < last_char_ix(view)

\* C30: move_left at character index 0, move_right on the last character of a
\* line or on an empty line, move_up on row 0 of the document and move_down
\* on its last row leave every field of the view unchanged.
C30_SaturatedMoves ==
    [][/\ (Called("move_left") /\ col(view) = 0) => view' = view
       /\ (Called("move_right") /\ col(view) = last_char_ix(view)) => view' = view
       /\ (Called("move_up") /\ current_row(view) = 0) => view' = view
       /\ (Called("move_down") /\ current_row(view) = Len(view.lines) - 1)
              => view' = view]_vars

\* C30 witness: a move_left on an empty or one-character line that the cursor
\* came to with a sticky column further right, which the call has kept
C30_Witness ==
    /\ NonEmpty /\ last_op.op = "move_left"
    /\ col(view) = 0
    /\ view.max_line_char_ix > 0

----------------------------------------------------------------------------
(* Properties of the edited line *)

\* the line that AsciiLine::new and indent(first_col) build from the text
from_scratch == indent(AsciiLine_new(ascii_text), ascii_line.val.first_col)

\* C31: after any insert, remove and clear calls on an AsciiLine the line
\* holds the edited text and char_width(i) is, for every i, what it is on the
\* line built from that text from scratch and indented to first_col.
C31_EditWidths ==
    /\ ascii_line.val.l = ascii_text
    /\ \A i \in 0..MaxEditLen :
           char_width(ascii_line.val, i) = char_width(from_scratch, i)

\* C31 witness: a character has been removed before a tab of a line that
\* does not start on a tab stop, and the tab is wider by one than a tab at
\* the character after it would be
C31_Witness ==
    /\ last_op.op = "remove"
    /\ last_op.c = 0
    /\ ascii_line.val.first_col = 3
    /\ ascii_text = <<"a", TAB, "a">>
    /\ char_width(ascii_line.val, 1) = 4

\* the widths were left as they were: a plain character has been inserted
\* into a line without tabs
C31_WitnessSkipped ==
    /\ last_op.op = "insert"
    /\ ascii_text = <<"a", "a">>
    /\ DOMAIN ascii_line.val.char_widths = {}

----------------------------------------------------------------------------
(* Properties of the View: gutter, window and ends of the document *)

\* the columns of the line numbers and of " | ": the digits of the number of
\* lines, and three
gutter == Len(to_string(Len(view.lines))) + 3

\* the line of the view built from its text from scratch, placed after the
\* gutter
after_gutter(line) == indent(AsciiLine_new(line.l), gutter)

\* C32: in every reachable state every line of the view is indented with
\* first_col = (digits of the number of lines) + 3, and cursor_col is what
\* the widths of the line placed after the gutter give: the columns of the
\* characters from the frame start to the cursor, less one.
C32_GutterTabs ==
    NonEmpty =>
        /\ \A i \in 1..Len(view.lines) : view.lines[i] = after_gutter(view.lines[i])
        /\ view.frame_start_char_ix <= view.line_char_ix =>
               view.cursor_col + 1 =
                   sum_widths(after_gutter(row_of(view)), view.frame_start_char_ix,
                              view.line_char_ix + 1)

\* C32 witness: in a document of three lines the cursor is on the tab at
\* character index 4, which is 8 columns wide, and cursor_col is 11
C32_Witness ==
    /\ Len(view.lines) = 3
    /\ last_op.op = "move_right"
    /\ col(view) = 4
    /\ row_of(view).l[5] = TAB
    /\ char_width(row_of(view), 4) = 8
    /\ view.frame_start_char_ix = 0
    /\ view.cursor_col = 11

\* in a document of ten lines the gutter is 5 columns wide, and the cursor
\* is on a tab that ends at column 8
C32_WitnessTwoDigits ==
    /\ Len(view.lines) = 10
    /\ gutter = 5
    /\ col(view) = 1
    /\ char_width(row_of(view), 1) = 2

----------------------------------------------------------------------------
(* Properties of the path index: scalar roots and the path stack *)

\* C33: for a document whose root is a scalar (null, boolean, number, string
\* or Ref) index() completes without failure and returns exactly one entry,
\* the root path '#' mapped to (0, 0).
C33_ScalarRoot ==
    (IndexOver /\ ~IsContainer(json)) =>
        /\ ~panicked
        /\ DOMAIN ix.refs = {<<"#">>}
        /\ ix.refs[<<"#">>] = <<0, 0>>

\* the container whose closing token index() is looking at: the one whose
\* last line is the current row
closing ==
    CHOOSE x \in AllLocated :
        IsContainer(x.v) /\ x.row + line_count(x.v) - 1 = ix.r

\* C38: right after the closing token of a container the joined path stack
\* is the canonical path of that container, and after the last token of a
\* container-rooted document the container stack is empty and the path
\* stack is the seed segment '#' alone.
C38_PathBalanced ==
    /\ [][IndexContainerEnd => join(ix'.path) = closing.path]_vars
    /\ []((IndexReturned /\ IsContainer(json)) =>
              (ix.stack = <<>> /\ ix.path = << <<"#">> >>))

----------------------------------------------------------------------------
(* Properties of the queries *)

\* the last key was Enter on the status line in Query mode
QueryEntered ==
    /\ EnterOnStatusLine
    /\ ui.status_line.mode = "Query"
    /\ ~panicked'

\* the query is looked up as the path p: on a hit the viewport goes to
\* index[p], the buffer is saved to the history of the queries, the status
\* line is cleared and the view has the focus; on a miss the viewport, the
\* history and the focus stay
LookedUpAs(p) ==
    IF p \in DOMAIN ix.refs
    THEN /\ view' = goto(view, ix.refs[p][1], ix.refs[p][2])
         /\ ui'.status_line.history[1] =
                Append(ui.status_line.history[1], ui.status_line.buffer)
         /\ ui'.status_line.history[2] = ui.status_line.history[2]
         /\ ui'.status_line.buffer.l = <<>>
         /\ ui'.status_line.error = None
         /\ ui'.focus = "View"
    ELSE /\ view' = view
         /\ ui'.status_line.history = ui.status_line.history
         /\ ui'.focus = "StatusLine"

\* a query without all the '/' it ends with
RECURSIVE trim_all(_)
trim_all(q) == IF trim_one(q) = q THEN q ELSE trim_all(trim_one(q))

\* C34 as stated: a query is looked up in the index after removing exactly
\* one trailing '/' (so p and p + "/" resolve to index[p] and p + "//" does
\* not resolve to p); on a hit the viewport performs goto(index[p]), the
\* query is saved to the history, the status line is cleared and the focus
\* returns to the view.
C34_QueryOneSlash == [][QueryEntered => LookedUpAs(trim_one(query_text))]_vars

\* C34, amended: the same with every trailing '/' removed before the lookup,
\* so p followed by any number of '/' resolves to index[p] when p does not
\* end with '/', and an indexed path that ends with '/' is never resolved.
C34_QueryAllSlashes == [][QueryEntered => LookedUpAs(trim_all(query_text))]_vars

\* the query "#/0/" has been executed: the cursor is on the first item of
\* the array and the query is in the history of the queries
C34_Witness ==
    /\ last_op.op = "Enter"
    /\ ui.focus = "View"
    /\ Len(ui.status_line.history[1]) = 1
    /\ ui.status_line.history[1][1].l = <<"#", "/", "0", "/">>
    /\ ui.status_line.buffer.l = <<>>
    /\ current_row(view) = 1

\* the query "#//" has been executed after the query "#/0": the cursor is
\* back on the first row
C34_WitnessTwoSlashes ==
    /\ last_op.op = "Enter"
    /\ ui.focus = "View"
    /\ Len(ui.status_line.history[1]) = 2
    /\ ui.status_line.history[1][2].l = <<"#", "/", "/">>
    /\ current_row(view) = 0

\* in the document {"": 1} the query "#/" has been executed: the cursor is
\* on the first row, not on the member, whose path is "#/"
C34_WitnessEmptyKey ==
    /\ json = DocEmptyKey
    /\ <<"#", "/">> \in DOMAIN ix.refs
    /\ ix.refs[<<"#", "/">>][1] = 1
    /\ last_op.op = "Enter"
    /\ ui.focus = "View"
    /\ Len(ui.status_line.history[1]) = 2
    /\ ui.status_line.history[1][2].l = <<"#", "/">>
    /\ current_row(view) = 0

----------------------------------------------------------------------------
(* Properties of the View: the rendered window *)

\* the columns of the characters from the frame start to the cursor, the
\* cursor character included
window_cols(v) == sum_widths(row_of(v), v.frame_start_char_ix, v.line_char_ix + 1)

\* C35: in every reachable state of a non-empty document
\* frame_start_char_ix <= line_char_ix, the sum of char_width over
\* [frame_start_char_ix, line_char_ix] is at most text_width (the width less
\* the gutter), and cursor_col < text_width.
C35_CursorInWindow ==
    NonEmpty =>
        /\ view.frame_start_char_ix <= view.line_char_ix
        /\ window_cols(view) <= text_width(view)
        /\ view.cursor_col < text_width(view)

\* C36: in every reachable state of a non-empty document line_char_ix is
\* min(max_line_char_ix, chars_count(current line) - 1), 0 on an empty line:
\* the index center_horizontally frames is the one col() reports.
C36_Snap ==
    NonEmpty => col(view) = Min(view.max_line_char_ix, last_char_ix(view))

\* C36 witness: the cursor was moved left on a line shorter than the column
\* remembered before, and the remembered column has followed it
C36_Witness ==
    /\ NonEmpty
    /\ last_op.op = "move_left"
    /\ view.max_line_char_ix = view.line_char_ix
    /\ view.line_char_ix = 1
    /\ current_row(view) > 0
    /\ \E i \in 1..Len(view.lines) : chars_count(view.lines[i]) > chars_count(row_of(view))

\* C36 witness: the remembered column lies past the end of the current line
\* and the cursor is on its last character
C36_WitnessCapped ==
    /\ NonEmpty
    /\ last_op.op = "page_down"
    /\ view.max_line_char_ix > last_char_ix(view)
    /\ view.line_char_ix = last_char_ix(view)
    /\ view.frame_start_char_ix > 0

----------------------------------------------------------------------------
(* Properties of the View: the ends of the document *)

\* one call of a vertical navigation method
vertical(name, v) ==
    CASE name = "move_down" -> move_down(v)
      [] name = "move_up" -> move_up(v)
      [] name = "page_down" -> page_down(v)
      [] name = "page_up" -> page_up(v)

\* the view after the method is repeated until the current row is the
\* target, n times at most
RECURSIVE repeated(_, _, _, _)
repeated(name, v, target, n) ==
    IF current_row(v) = target \/ n = 0 THEN v
    ELSE repeated(name, vertical(name, v), target, n - 1)

last_row == Len(view.lines) - 1

\* repeating the method at most n times makes the current row the target,
\* and one more call then changes nothing
ReachesAndRests(name, target, n) ==
    \A e \in {repeated(name, view, target, n)} :
        /\ current_row(e) = target
        /\ vertical(name, e) = e

\* repeating the method at most n times makes the current row the target;
\* one more call keeps the row, and the calls after it change nothing
ReachesAndSettles(name, target, n) ==
    \A e \in {repeated(name, view, target, n)} :
        /\ current_row(e) = target
        /\ \A s \in {vertical(name, e)} :
               /\ current_row(s) = target
               /\ vertical(name, s) = s

\* C37 as stated: from every reachable state of a non-empty document,
\* repeating move_down (at most len - 1 times) or page_down makes the current
\* row len - 1 and repeating move_up or page_up makes it 0; once there, a
\* further call of the same method does not change the state.
C37_ReachesEnds ==
    NonEmpty =>
        /\ ReachesAndRests("move_down", last_row, Len(view.lines) - 1)
        /\ ReachesAndRests("page_down", last_row, Len(view.lines))
        /\ ReachesAndRests("move_up", 0, Len(view.lines) - 1)
        /\ ReachesAndRests("page_up", 0, Len(view.lines) + 1)

\* C37, amended: the same, except that the page_down that follows the
\* arrival on the last row may still move the frame (frame_start_row =
\* len - 1, cursor_row = 0) without leaving the row; the calls after it
\* change nothing.
C37_ReachesEndsAndSettles ==
    NonEmpty =>
        /\ ReachesAndRests("move_down", last_row, Len(view.lines) - 1)
        /\ ReachesAndSettles("page_down", last_row, Len(view.lines))
        /\ ReachesAndRests("move_up", 0, Len(view.lines) - 1)
        /\ ReachesAndRests("page_up", 0, Len(view.lines) + 1)

\* C37 witness: page_down has reached the last row with the cursor below
\* the first row of the frame, and one more page_down moves the frame
C37_Witness ==
    /\ NonEmpty
    /\ last_op.op = "page_down"
    /\ current_row(view) = last_row
    /\ view.cursor_row > 0
    /\ view.cursor_row < view.height
    /\ Len(view.lines) = 10
    /\ page_down(view) # view
    /\ current_row(page_down(view)) = last_row

\* C37 witness: move_up has reached the first row of a document of ten lines
C37_WitnessTop ==
    /\ Len(view.lines) = 10
    /\ last_op.op = "move_up"
    /\ current_row(view) = 0
    /\ move_up(view) = view

----------------------------------------------------------------------------
(* Properties of the status line: its prefix and its histories *)

\* every line of the history begins with the prefix
begin_with(history, prefix) ==
    \A i \in 1..Len(history) : history[i].l # <<>> /\ history[i].l[1] = prefix

\* the prefix of a mode of the status line
prefix_of(mode) == IF mode = "Command" THEN ":" ELSE "#"

\* C39: in every reachable state in which the status line has the focus, its
\* buffer is not empty, begins with the prefix of the mode it is in, and
\* col_char_ix >= 1; so text() does not fail.
C39_PrefixKept ==
    (ui.focus = "StatusLine" /\ ui.exit # "panic") =>
        /\ ui.status_line.buffer.l # <<>>
        /\ ui.status_line.buffer.l[1] = prefix_of(ui.status_line.mode)
        /\ ui.status_line.col_char_ix >= 1
        /\ ~StatusLine_text_fails(ui.status_line)

\* C40: after any sequence of key events every entry of the Command history
\* begins with ':' and every entry of the Query history begins with '#'; a
\* jump by Enter on a Ref token in the view adds no entry to the Command
\* history.
C40_HistoryPerMode ==
    ui.exit # "panic" =>
        /\ begin_with(ui.status_line.history[StatusLineMode_id("Command") + 1], ":")
        /\ begin_with(ui.status_line.history[StatusLineMode_id("Query") + 1], "#")

====
